---- MODULE Spec2Model ----
(***************************************************************************)
(* Model of the ansuz code explainer: the processing orchestrator of the   *)
(* two App components (the JSON-lines variant of src/unnamed/part_000 and  *)
(* the marker variant of src/App.tsx), the JSON-lines stream parser and    *)
(* the marker stream parser, and the block matcher and line projection of *)
(* the code view (src/components/CodeExplainerView.tsx).                   *)
(*                                                                         *)
(* React is modelled as follows.  A setState call changes the state        *)
(* variable at once (every updater of the source is functional, so the     *)
(* updates apply in call order) and puts the variable's name in `dirty`.   *)
(* Render commits: it copies the state into `rendered`, the values every   *)
(* callback created by that render closes over, and runs the queue effect  *)
(* when one of its dependencies is dirty.  A user event calls the handler  *)
(* of the last render, so it reads `rendered`; a click is followed by its  *)
(* own synchronous render (syncRender).  Promise continuations of one      *)
(* task (finally, the .then of the queue effect) run in the same step as   *)
(* the event that resolves the promise.                                    *)
(***************************************************************************)
EXTENDS Integers, Sequences, FiniteSets, TLC

VARIABLES variant, fileTree, fileContent, apiKey, selectedFile, explanationsCache, processingStatus,
          processingQueue, deepDiveStatus, rendered, dirty, syncRender,
          streams, dives, outOfOrder, enqueued, raised,
          response, pos, phase, buffer, blocks, stored, globalBlockCache,
          closureBlockCache, lineKinds, tailKind,
          mode, currentCodeBlock, updatePending, records,
          sourceCode, viewBlocks, blockIndex, lastIndex, metadata, match,
          error, errorMessage, envKey, localKey,
          history, storedHistory, gistHistory, gistSaves, githubToken, storageFull,
          lastSavedProject, historyUpdates, activeHistoryId,
          selectedFiles, pastedCode, pendingReads, root, projectTree, isLoading, ingestion,
          hashedBlock, blockKey

orchVars == <<variant, fileTree, fileContent, apiKey, selectedFile, explanationsCache, processingStatus,
              processingQueue, deepDiveStatus, rendered, dirty, syncRender,
              streams, dives, outOfOrder, enqueued, raised>>

\* the stream of one analysis, as text
parseVars == <<response, pos, phase, buffer, blocks, stored, globalBlockCache,
               closureBlockCache, lineKinds, tailKind,
               mode, currentCodeBlock, updatePending, records>>

\* the variables of the marker parser alone
markerVars == <<mode, currentCodeBlock, updatePending, records>>
\* the variables of the JSON-lines parser alone
jsonlVars == <<blocks, globalBlockCache, closureBlockCache, lineKinds, tailKind>>
\* the code view of the selected file: its props and the line projection
viewVars == <<sourceCode, viewBlocks, blockIndex, lastIndex, metadata, match>>
\* an error handed to handleApiError and what it returns, the key of the
\* environment (process.env.API_KEY) and the key kept in localStorage
\* the history list, its copies in localStorage and in the gist, the gist
\* saves in flight, and the setHistory updaters that wait for a render
historyVars == <<history, storedHistory, gistHistory, gistSaves, githubToken, storageFull,
                 lastSavedProject, historyUpdates, activeHistoryId>>
\* the welcome screen: the files chosen or the lines pasted, the reads to
\* complete, the tree under construction and the tree handed to the App
ingestVars == <<selectedFiles, pastedCode, pendingReads, root, projectTree, isLoading, ingestion>>
\* a code block handed to createBlockHash and the key it returned
hashVars == <<hashedBlock, blockKey>>
auxVars == <<error, errorMessage, envKey, localKey, historyVars, ingestVars, hashVars>>
vars == <<orchVars, parseVars, viewVars, auxVars>>

\* ------------------------------------------------------------------ bounds
\* analysis streams in flight per file
MaxStreams == 2
\* records of a response in the analysis specifications
MaxBlocks == 1
\* records of a response in the deep-dive specification
MaxChunks == 2
\* deep-dive streams in flight
MaxDives == 2

\* ------------------------------------------------------------- the project
\* Every function over files has the domain FileSet; the files of the loaded
\* project are those of fileTree, in the order getAllFiles lists them.
FileSet == {"A", "B", "C"}
FilePaths == fileTree
ProjectFiles == {fileTree[i] : i \in 1..Len(fileTree)}
NoFile == "none"
Variants == {"jsonl", "marker"}
ErrorKinds == {"key", "other"}
\* content of a file: program text, or the empty string
Contents == {"code", "empty"}
\* content that is not empty and consists of whitespace only
Blank == "blank"

CodeBlock == [kind |-> "code", dd |-> "absent"]
ErrorBlock == [kind |-> "error", dd |-> "absent"]
\* { code_block: "// This file is empty.", explanation: "There is no code in this file to analyze." }
EmptyFileBlock == [kind |-> "emptyFile", dd |-> "absent"]
HoleBlock == [kind |-> "hole", dd |-> "absent"]
NoExplanation == [has |-> FALSE, blocks |-> <<>>]
EmptyExplanation == [has |-> TRUE, blocks |-> <<>>]
IdleDeepDive == [file |-> NoFile, blockIndex |-> 0, isLoading |-> FALSE]

\* The state a render closes over.  Of the explanations, the handlers read the
\* blocks of the selected file only (currentExplanation, handleDeepDive) and,
\* of the other files, whether an Explanation exists.
Snapshot ==
  [apiKey |-> apiKey, selectedFile |-> selectedFile,
   explanationsCache |->
     [f \in FileSet |-> IF f = selectedFile THEN explanationsCache[f]
                        ELSE [has |-> explanationsCache[f].has, blocks |-> <<>>]],
   processingStatus |-> processingStatus, deepDiveStatus |-> deepDiveStatus]

Slice1(q) == IF q = <<>> THEN <<>> ELSE Tail(q)

RECURSIVE FilterSeq(_, _)
FilterSeq(s, keep) ==
  IF s = <<>> THEN <<>>
  ELSE IF Head(s) \in keep THEN <<Head(s)>> \o FilterSeq(Tail(s), keep)
       ELSE FilterSeq(Tail(s), keep)

\* Position of a file in the tree order (the order of every queue built).
Before(g, f) ==
  \E i, j \in 1..Len(FilePaths) : i < j /\ FilePaths[i] = g /\ FilePaths[j] = f

RemoveAt(s, i) == [j \in 1..(Len(s) - 1) |-> IF j < i THEN s[j] ELSE s[j + 1]]

\* ---------------------------------------------------- analyze: the guard
\* The guard of fetchAndCacheExplanation / streamAndCacheExplanation, read
\* from the closure c of the render that created the callback.
GuardPasses(c, f) ==
  /\ fileContent[f] # "empty"
  /\ c.apiKey # "none"
  /\ c.processingStatus[f] # "done"
  /\ c.processingStatus[f] # "processing"

\* The synchronous part of analyze after the guard, up to the first await.
StartAnalysis(c, f, origin) ==
  /\ processingStatus' = [processingStatus EXCEPT ![f] = "processing"]
  /\ explanationsCache' = [explanationsCache EXCEPT ![f] = EmptyExplanation]
  /\ streams' = [streams EXCEPT ![f] = Append(@, [origin |-> origin, blocks |-> <<>>,
                                                   key |-> c.apiKey])]

AnalysisDirt == {"processingStatus", "explanationsCache"}

\* ------------------------------------------------------- the queue effect
QueueEffectDeps ==
  IF variant = "jsonl"
  THEN {"processingQueue", "processingStatus", "explanationsCache", "apiKey"}
  ELSE {"processingQueue", "processingStatus", "apiKey"}

QueueEffectSkips(f) ==
  /\ variant = "jsonl"
  /\ processingStatus[f] = "processing" \/ explanationsCache[f].has

QueueEffect ==
  LET f == Head(processingQueue) IN
  IF QueueEffectSkips(f) \/ ~GuardPasses(Snapshot, f)
  THEN /\ processingQueue' = Slice1(processingQueue)
       /\ dirty' = {"processingQueue"}
       /\ UNCHANGED <<processingStatus, explanationsCache, streams>>
  ELSE /\ Len(streams[f]) < MaxStreams
       /\ StartAnalysis(Snapshot, f, "queue")
       /\ dirty' = AnalysisDirt
       /\ UNCHANGED processingQueue

Render ==
  /\ dirty # {}
  /\ rendered' = Snapshot
  /\ syncRender' = FALSE
  /\ IF dirty \cap QueueEffectDeps # {} /\ processingQueue # <<>>
     THEN QueueEffect
     ELSE /\ dirty' = {}
          /\ UNCHANGED <<processingQueue, processingStatus, explanationsCache, streams>>
  /\ UNCHANGED <<parseVars, viewVars, auxVars, variant, fileTree, fileContent, apiKey, selectedFile, deepDiveStatus, dives, outOfOrder,
                 enqueued, raised>>

\* ------------------------------------------------------------ user events
UiReady == ~syncRender /\ rendered.apiKey # "none"

handleSelectFile(f) ==
  /\ UiReady
  /\ f # rendered.selectedFile
  /\ selectedFile' = f
  /\ syncRender' = TRUE
  /\ IF GuardPasses(rendered, f)
     THEN /\ Len(streams[f]) < MaxStreams
          /\ StartAnalysis(rendered, f, "select")
          /\ dirty' = dirty \cup {"selectedFile"} \cup AnalysisDirt
     ELSE /\ dirty' = dirty \cup {"selectedFile"}
          /\ UNCHANGED <<processingStatus, explanationsCache, streams>>
  /\ UNCHANGED <<parseVars, viewVars, auxVars, variant, fileTree, fileContent, apiKey, processingQueue, deepDiveStatus, rendered, dives,
                 outOfOrder, enqueued, raised>>

RemainingFiles(c) == {f \in ProjectFiles : ~c.explanationsCache[f].has}

ProcessAllFilter(c) ==
  IF variant = "jsonl"
  THEN RemainingFiles(c)
  ELSE {f \in RemainingFiles(c) : c.processingStatus[f] # "processing"}

handleProcessAll ==
  /\ UiReady
  /\ variant = "jsonl" => RemainingFiles(rendered) # {}
  /\ processingQueue' = FilterSeq(FilePaths, ProcessAllFilter(rendered))
  /\ enqueued' = ProcessAllFilter(rendered)
  /\ dirty' = dirty \cup {"processingQueue"}
  /\ syncRender' = TRUE
  /\ UNCHANGED <<parseVars, viewVars, auxVars, variant, fileTree, fileContent, apiKey, selectedFile, explanationsCache, processingStatus,
                 deepDiveStatus, rendered, streams, dives, outOfOrder, raised>>

\* -------------------------------------------------------- stream events
\* What the service returns for a file of whitespace only, without a request
\* to the model: explainFileStream a generator that yields the text of one
\* block and ends; explainFileInBulk a promise of an object { blocks: [...] },
\* which `for await` cannot iterate (a TypeError, caught by the catch of analyze).
BlankYields(f, s) == fileContent[f] = Blank => (variant = "marker" /\ s.blocks = <<>>)
BlankEnds(f, s) == fileContent[f] = Blank => (variant = "marker" /\ s.blocks # <<>>)
BlankRaises(f, kind) == fileContent[f] = Blank => (variant = "jsonl" /\ kind = "other")

BlockOfContent(f) == IF fileContent[f] = Blank THEN EmptyFileBlock ELSE CodeBlock

\* One parsed record of the stream: a new block of the file's Explanation.
StreamBlock(f, i, cap) ==
  LET s == streams[f][i]
      local == Append(s.blocks, BlockOfContent(f))
      prev == IF explanationsCache[f].has THEN explanationsCache[f].blocks ELSE <<>>
  IN /\ ~syncRender
     /\ BlankYields(f, s)
     /\ Len(s.blocks) < cap
     /\ streams' = [streams EXCEPT ![f][i].blocks = local]
     /\ explanationsCache' =
          [explanationsCache EXCEPT ![f] =
             [has |-> TRUE,
              blocks |-> IF variant = "jsonl" THEN local ELSE Append(prev, BlockOfContent(f))]]
     /\ dirty' = dirty \cup {"explanationsCache"}
     /\ UNCHANGED <<parseVars, viewVars, auxVars, variant, fileTree, fileContent, apiKey, selectedFile, processingStatus, processingQueue,
                    deepDiveStatus, rendered, syncRender, dives, outOfOrder, enqueued,
                    raised>>

\* A file reaches done before a file queued ahead of it.
Overtakes(f) ==
  /\ processingStatus[f] # "done"
  /\ f \in enqueued
  /\ \E g \in enqueued : Before(g, f) /\ processingStatus[g] # "done"

\* (the status is set to done on the success path only)
StatusAfterAnalysisNoFinally(f, failed) ==
  IF failed THEN processingStatus ELSE [processingStatus EXCEPT ![f] = "done"]

\* finally of analyze: the status after the try block, failed or not.
StatusAfterAnalysis(f, failed) == [processingStatus EXCEPT ![f] = "done"]

\* finally of analyze, and the .then of the queue effect when it made the call.
FinishAnalysis(f, i, failed) ==
  /\ processingStatus' = StatusAfterAnalysis(f, failed)
  /\ outOfOrder' = (outOfOrder \/ Overtakes(f))
  /\ streams' = [streams EXCEPT ![f] = RemoveAt(@, i)]
  /\ processingQueue' = IF streams[f][i].origin = "queue" THEN Slice1(processingQueue)
                        ELSE processingQueue

FinishDirt(f, i) ==
  {"processingStatus"}
    \cup (IF variant = "marker" THEN {"explanationsCache"} ELSE {})
    \cup (IF streams[f][i].origin = "queue" THEN {"processingQueue"} ELSE {})

StreamEnd(f, i) ==
  /\ ~syncRender
  /\ BlankEnds(f, streams[f][i])
  /\ FinishAnalysis(f, i, FALSE)
  /\ dirty' = dirty \cup FinishDirt(f, i)
  /\ UNCHANGED <<parseVars, viewVars, auxVars, variant, fileTree, fileContent, apiKey, selectedFile, explanationsCache, deepDiveStatus,
                 rendered, syncRender, dives, enqueued, raised>>

\* handleApiError: an invalid-key error forgets a key that is not the
\* environment's.
KeyAfterError(kind, key) ==
  IF kind = "key" /\ key # "env" THEN "none" ELSE apiKey

ErrorDirt(kind, key) == IF kind = "key" /\ key # "env" THEN {"apiKey"} ELSE {}

\* catch of analyze.
AnalysisCatch(f, kind) ==
  IF variant = "jsonl" \/ kind = "key"
  THEN [explanationsCache EXCEPT ![f] = [has |-> TRUE, blocks |-> <<ErrorBlock>>]]
  ELSE explanationsCache

StreamError(f, i, kind) ==
  LET s == streams[f][i] IN
  /\ ~syncRender
  /\ BlankRaises(f, kind)
  /\ explanationsCache' = AnalysisCatch(f, kind)
  /\ apiKey' = KeyAfterError(kind, s.key)
  /\ raised' = raised \cup {f}
  /\ FinishAnalysis(f, i, TRUE)
  /\ dirty' = dirty \cup FinishDirt(f, i) \cup ErrorDirt(kind, s.key)
                   \cup (IF variant = "jsonl" \/ kind = "key" THEN {"explanationsCache"} ELSE {})
  /\ UNCHANGED <<parseVars, viewVars, auxVars, variant, fileTree, fileContent, selectedFile, deepDiveStatus, rendered, syncRender, dives,
                 enqueued>>

\* ------------------------------------------------------------- deep dive
SetDeepDive(e, idx, v) ==
  IF ~e.has THEN e
  ELSE LET n == IF idx > Len(e.blocks) THEN idx ELSE Len(e.blocks) IN
       [has |-> TRUE,
        blocks |-> [j \in 1..n |->
                      IF j = idx
                      THEN [kind |-> IF idx <= Len(e.blocks) THEN e.blocks[idx].kind
                                     ELSE "bare",
                            dd |-> v]
                      ELSE IF j <= Len(e.blocks) THEN e.blocks[j] ELSE HoleBlock]]

\* A guard that would also wait for every analysis to end.
DeepDiveGuardSerial(c, idx) ==
  /\ c.selectedFile # NoFile
  /\ c.apiKey # "none"
  /\ ~c.deepDiveStatus.isLoading
  /\ \A f \in FileSet : c.processingStatus[f] # "processing"
  /\ idx \in 1..Len(c.explanationsCache[c.selectedFile].blocks)
  /\ c.explanationsCache[c.selectedFile].blocks[idx].kind # "hole"

DeepDiveGuard(c, idx) ==
  /\ c.selectedFile # NoFile
  /\ c.apiKey # "none"
  /\ ~c.deepDiveStatus.isLoading
  /\ idx \in 1..Len(c.explanationsCache[c.selectedFile].blocks)
  /\ c.explanationsCache[c.selectedFile].blocks[idx].kind # "hole"

NewDive(c, idx) ==
  [file |-> c.selectedFile, blockIndex |-> idx, phase |-> "calling", key |-> c.apiKey]

\* The Deep Dive button and the 'e' shortcut: one call of onDeepDive.
handleDeepDive(idx) ==
  /\ UiReady
  /\ DeepDiveGuard(rendered, idx)
  /\ rendered.explanationsCache[rendered.selectedFile].blocks[idx].dd \in {"absent", "empty"}
  /\ Len(dives) < MaxDives
  /\ deepDiveStatus' = [file |-> rendered.selectedFile, blockIndex |-> idx, isLoading |-> TRUE]
  /\ dives' = Append(dives, NewDive(rendered, idx))
  /\ dirty' = dirty \cup {"deepDiveStatus"}
  /\ syncRender' = TRUE
  /\ UNCHANGED <<parseVars, viewVars, auxVars, variant, fileTree, fileContent, apiKey, selectedFile, explanationsCache, processingStatus,
                 processingQueue, rendered, streams, outOfOrder, enqueued, raised>>

\* The blocks the 'E' shortcut calls onDeepDive for, in segment order.
ExpandTargets(c) ==
  IF c.selectedFile = NoFile THEN <<>>
  ELSE LET bs == c.explanationsCache[c.selectedFile].blocks IN
       FilterSeq([j \in 1..Len(bs) |-> j],
                 {j \in 1..Len(bs) : bs[j].dd \in {"absent", "empty"} /\ DeepDiveGuard(c, j)})

\* The 'E' shortcut: onDeepDive once per block without a deep dive, all in one
\* key event, hence all with the handleDeepDive of the same render.
handleExpandAll ==
  LET t == ExpandTargets(rendered) IN
  /\ UiReady
  /\ t # <<>>
  /\ Len(dives) + Len(t) <= MaxDives
  /\ deepDiveStatus' = [file |-> rendered.selectedFile, blockIndex |-> t[Len(t)],
                        isLoading |-> TRUE]
  /\ dives' = dives \o [j \in 1..Len(t) |-> NewDive(rendered, t[j])]
  /\ dirty' = dirty \cup {"deepDiveStatus"}
  /\ syncRender' = TRUE
  /\ UNCHANGED <<parseVars, viewVars, auxVars, variant, fileTree, fileContent, apiKey, selectedFile, explanationsCache, processingStatus,
                 processingQueue, rendered, streams, outOfOrder, enqueued, raised>>

\* (the file a deep dive would write to if it read the selection anew)
DiveFileSelected(d) == selectedFile

\* selectedFile.path in the updaters of handleDeepDive: the selectedFile of
\* the render whose handleDeepDive was called
DiveFile(d) == d.file

\* explainSnippetStream resolved: the target's deep_dive_explanation is reset.
DiveOpen(i) ==
  LET d == dives[i] IN
  /\ ~syncRender
  /\ d.phase = "calling"
  /\ dives' = [dives EXCEPT ![i].phase = "streaming"]
  /\ explanationsCache' =
       [explanationsCache EXCEPT ![DiveFile(d)] = SetDeepDive(@, d.blockIndex, "empty")]
  /\ dirty' = dirty \cup {"explanationsCache"}
  /\ UNCHANGED <<parseVars, viewVars, auxVars, variant, fileTree, fileContent, apiKey, selectedFile, processingStatus, processingQueue,
                 deepDiveStatus, rendered, syncRender, streams, outOfOrder, enqueued,
                 raised>>

DiveChunk(i) ==
  LET d == dives[i] IN
  /\ ~syncRender
  /\ d.phase = "streaming"
  /\ dives' = [dives EXCEPT ![i].phase = "streamed"]
  /\ explanationsCache' =
       [explanationsCache EXCEPT ![DiveFile(d)] = SetDeepDive(@, d.blockIndex, "text")]
  /\ dirty' = dirty \cup {"explanationsCache"}
  /\ UNCHANGED <<parseVars, viewVars, auxVars, variant, fileTree, fileContent, apiKey, selectedFile, processingStatus, processingQueue,
                 deepDiveStatus, rendered, syncRender, streams, outOfOrder, enqueued,
                 raised>>

\* The finally of handleDeepDive: the flag is cleared whatever the outcome.
DeepDiveUnsettled(status) == status

DeepDiveSettled(status) == IdleDeepDive

DiveEnd(i) ==
  LET d == dives[i] IN
  /\ ~syncRender
  /\ d.phase \in {"streaming", "streamed"}
  /\ dives' = RemoveAt(dives, i)
  /\ deepDiveStatus' = DeepDiveSettled(deepDiveStatus)
  /\ dirty' = dirty \cup {"deepDiveStatus"}
  /\ UNCHANGED <<parseVars, viewVars, auxVars, variant, fileTree, fileContent, apiKey, selectedFile, explanationsCache, processingStatus,
                 processingQueue, rendered, syncRender, streams, outOfOrder, enqueued,
                 raised>>

DiveError(i, kind) ==
  LET d == dives[i] IN
  /\ ~syncRender
  /\ dives' = RemoveAt(dives, i)
  /\ explanationsCache' =
       [explanationsCache EXCEPT ![DiveFile(d)] = SetDeepDive(@, d.blockIndex, "failed")]
  /\ apiKey' = KeyAfterError(kind, d.key)
  /\ deepDiveStatus' = DeepDiveSettled(deepDiveStatus)
  /\ dirty' = dirty \cup {"deepDiveStatus", "explanationsCache"} \cup ErrorDirt(kind, d.key)
  /\ UNCHANGED <<parseVars, viewVars, auxVars, variant, fileTree, fileContent, selectedFile, processingStatus, processingQueue, rendered,
                 syncRender, streams, outOfOrder, enqueued, raised>>

\* The text-level variables are not used by the orchestrator specifications.
ParserIdle ==
  /\ response = <<>>
  /\ pos = 0
  /\ phase = "idle"
  /\ buffer = <<>>
  /\ blocks = <<>>
  /\ stored = <<>>
  /\ globalBlockCache = {}
  /\ closureBlockCache = {}
  /\ lineKinds = <<>>
  /\ tailKind = "none"
  /\ mode = "find_code"
  /\ currentCodeBlock = <<>>
  /\ updatePending = FALSE
  /\ records = <<>>

\* No file is shown: the code view is not mounted.
NoMatch == [found |-> FALSE, index |-> 0 - 1, content |-> <<>>]

ViewIdle ==
  /\ sourceCode = <<>>
  /\ viewBlocks = <<>>
  /\ blockIndex = 0
  /\ lastIndex = 0
  /\ metadata = <<>>
  /\ match = NoMatch

\* No error is being classified; the build has no key of its own.
NoError == [isError |-> FALSE, fragments |-> <<>>]

NoEntries == [entries |-> <<>>]

NoProject == [ready |-> FALSE, nodes |-> <<>>]

IngestIdle ==
  /\ selectedFiles = <<>>
  /\ pastedCode = <<>>
  /\ pendingReads = <<>>
  /\ root = <<>>
  /\ projectTree = NoProject
  /\ isLoading = FALSE
  /\ ingestion = "idle"

HistoryIdle ==
  /\ history = <<>>
  /\ storedHistory = NoEntries
  /\ gistHistory = NoEntries
  /\ gistSaves = <<>>
  /\ githubToken = FALSE
  /\ storageFull = FALSE
  /\ lastSavedProject = 0
  /\ historyUpdates = <<>>
  /\ activeHistoryId = 0

HashIdle ==
  /\ hashedBlock = <<>>
  /\ blockKey = <<>>

AuxIdle ==
  /\ HashIdle
  /\ error = NoError
  /\ errorMessage = ""
  /\ envKey = "none"
  /\ localKey = "none"
  /\ HistoryIdle
  /\ IngestIdle

\* ================================================================== text
\* Strings are sequences of one-character strings.
LF == "\n"
CR == "\r"
Quote == "\""
IsWhitespace(c) == c \in {" ", LF, CR, "\t"}

\* index of the first character at or after i that is no whitespace
RECURSIVE SkipWhitespace(_, _)
SkipWhitespace(s, i) ==
  IF i <= Len(s) /\ IsWhitespace(s[i]) THEN SkipWhitespace(s, i + 1) ELSE i

\* index of the last character at or before i that is no whitespace
RECURSIVE SkipWhitespaceBack(_, _)
SkipWhitespaceBack(s, i) ==
  IF i >= 1 /\ IsWhitespace(s[i]) THEN SkipWhitespaceBack(s, i - 1) ELSE i

TrimStart(s) == SubSeq(s, SkipWhitespace(s, 1), Len(s))
TrimEnd(s) == SubSeq(s, 1, SkipWhitespaceBack(s, Len(s)))

\* String.prototype.trim
Trim(s) == SubSeq(s, SkipWhitespace(s, 1), SkipWhitespaceBack(s, Len(s)))

\* s.replace(/\s+/g, ' ')
RECURSIVE CollapseWhitespace(_)
CollapseWhitespace(s) ==
  IF s = <<>> THEN <<>>
  ELSE IF IsWhitespace(Head(s))
       THEN <<" ">> \o CollapseWhitespace(TrimStart(s))
       ELSE <<Head(s)>> \o CollapseWhitespace(Tail(s))

\* s.indexOf(c, from) for a character c, 1-based; 0 when absent
IndexOfChar(s, c, from) ==
  LET found == {i \in from..Len(s) : s[i] = c} IN
  IF found = {} THEN 0 ELSE CHOOSE i \in found : \A j \in found : i <= j

RECURSIVE SplitFrom(_, _)
SplitFrom(s, start) ==
  LET i == IndexOfChar(s, LF, start) IN
  IF i = 0 THEN <<SubSeq(s, start, Len(s))>>
  ELSE <<SubSeq(s, start, i - 1)>> \o SplitFrom(s, i + 1)

\* s.split('\n')
SplitLines(s) == SplitFrom(s, 1)

RECURSIVE Flatten(_)
Flatten(ss) == IF ss = <<>> THEN <<>> ELSE Head(ss) \o Flatten(Tail(ss))

\* ------------------------------------------------------------ JSON.parse
\* JSON.parse on the texts the model feeds: an object whose members are
\* strings without escapes, with optional whitespace between the tokens.
\* Anything else in those texts is a syntax error.  A field that is missing
\* reads as undefined, which is falsy like the empty string: both are <<>>.
ParseFailure == [ok |-> FALSE, code_block |-> <<>>, explanation |-> <<>>]
EmptyObject == [ok |-> TRUE, code_block |-> <<>>, explanation |-> <<>>]
KeyCodeBlock == <<"c", "o", "d", "e", "_", "b", "l", "o", "c", "k">>
KeyExplanation == <<"e", "x", "p", "l", "a", "n", "a", "t", "i", "o", "n">>

ParseString(s, i) ==
  IF i > Len(s) \/ s[i] # Quote THEN [ok |-> FALSE, val |-> <<>>, next |-> i]
  ELSE LET j == IndexOfChar(s, Quote, i + 1) IN
       IF j = 0 THEN [ok |-> FALSE, val |-> <<>>, next |-> i]
       ELSE [ok |-> TRUE, val |-> SubSeq(s, i + 1, j - 1), next |-> j + 1]

SetMember(obj, k, v) ==
  IF k = KeyCodeBlock THEN [obj EXCEPT !.code_block = v]
  ELSE IF k = KeyExplanation THEN [obj EXCEPT !.explanation = v]
  ELSE obj

RECURSIVE ParseMembers(_, _, _)
ParseMembers(s, i, obj) ==
  LET k == ParseString(s, SkipWhitespace(s, i))
      c == SkipWhitespace(s, k.next)
      v == ParseString(s, SkipWhitespace(s, c + 1))
      d == SkipWhitespace(s, v.next)
  IN IF ~k.ok \/ c > Len(s) THEN ParseFailure
     ELSE IF s[c] # ":" \/ ~v.ok \/ d > Len(s) THEN ParseFailure
     ELSE IF s[d] = "," THEN ParseMembers(s, d + 1, SetMember(obj, k.val, v.val))
     ELSE IF s[d] = "}" /\ SkipWhitespace(s, d + 1) > Len(s)
          THEN SetMember(obj, k.val, v.val)
          ELSE ParseFailure

JSONParse(s) ==
  LET i == SkipWhitespace(s, 1) IN
  IF i > Len(s) THEN ParseFailure
  ELSE IF s[i] # "{" THEN ParseFailure
  ELSE LET j == SkipWhitespace(s, i + 1) IN
       IF j <= Len(s) /\ s[j] = "}" /\ SkipWhitespace(s, j + 1) > Len(s)
       THEN EmptyObject
       ELSE ParseMembers(s, i + 1, EmptyObject)

\* ------------------------------------------------------- createBlockHash
CharCodes ==
  << <<" ", 32>>, <<"a", 97>>, <<"b", 98>>, <<"c", 99>>, <<"d", 100>>, <<"e", 101>>,
     <<"x", 120>>, <<"y", 121>>, <<";", 59>>, <<"=", 61>> >>

charCodeAt(c) ==
  LET k == CHOOSE k \in 1..Len(CharCodes) : CharCodes[k][1] = c IN CharCodes[k][2]

\* 32-bit integers are handled as two 16-bit halves, so that no intermediate
\* value leaves the range of a 32-bit integer.
Half == 65536
HighHalf(h) == (h \div Half) % Half
LowHalf(h) == h % Half
FromHalves(hi, lo) == IF hi >= 32768 THEN (hi - Half) * Half + lo ELSE hi * Half + lo

\* (the step with the shifted value added instead of subtracted: 33 * h + char)
HashStepAdded(h, char) ==
  LET shiftedLow == (32 * LowHalf(h)) % Half
      shiftedHigh == (32 * HighHalf(h) + ((32 * LowHalf(h)) \div Half)) % Half
      low == shiftedLow + LowHalf(h) + char
      high == (shiftedHigh + HighHalf(h) + (low \div Half)) % Half
  IN FromHalves(high, low % Half)

\* hash = ((hash << 5) - hash) + char; hash = hash & hash
HashStep(h, char) ==
  LET shiftedLow == (32 * LowHalf(h)) % Half
      shiftedHigh == (32 * HighHalf(h) + ((32 * LowHalf(h)) \div Half)) % Half
      low == shiftedLow - LowHalf(h) + char
      high == (shiftedHigh - HighHalf(h) + (low \div Half)) % Half
  IN FromHalves(high, low % Half)

RECURSIVE HashFrom(_, _)
HashFrom(h, s) ==
  IF s = <<>> THEN h ELSE HashFrom(HashStep(h, charCodeAt(Head(s))), Tail(s))

Digits36 ==
  <<"0", "1", "2", "3", "4", "5", "6", "7", "8", "9", "a", "b", "c", "d", "e", "f",
    "g", "h", "i", "j", "k", "l", "m", "n", "o", "p", "q", "r", "s", "t", "u", "v",
    "w", "x", "y", "z">>

RECURSIVE Radix36(_)
Radix36(n) ==
  IF n < 36 THEN <<Digits36[n + 1]>>
  ELSE Radix36(n \div 36) \o <<Digits36[(n % 36) + 1]>>

\* the digits of -n for n < 0, without forming -n
RECURSIVE Radix36Negative(_)
Radix36Negative(n) ==
  LET d == (36 - (n % 36)) % 36
      rest == (n + d) \div 36
  IN IF rest = 0 THEN <<Digits36[d + 1]>>
     ELSE Radix36Negative(rest) \o <<Digits36[d + 1]>>

\* Number.prototype.toString(36) of an integer
ToString36(n) == IF n < 0 THEN <<"-">> \o Radix36Negative(n) ELSE Radix36(n)

createBlockHash(codeBlock) ==
  ToString36(HashFrom(0, CollapseWhitespace(Trim(codeBlock))))

\* A Map as a set of <<key, value>> pairs with distinct keys.
MapHas(m, k) == \E p \in m : p[1] = k
MapGet(m, k) == IF MapHas(m, k) THEN (CHOOSE p \in m : p[1] = k)[2] ELSE <<>>
MapSet(m, k, v) == {p \in m : p[1] # k} \cup {<<k, v>>}

\* ================================================= the JSON-lines parser
\* One line of the stream loop of fetchAndCacheExplanation, on the local
\* state st = [blocks, cache]: cache is the globalBlockCache state the
\* queued updaters produce, closureBlockCache the map the callback closed over.
BlockOfRecord(parsed, blockHash, cachedExplanation, st) ==
  IF cachedExplanation # <<>>
  THEN [blocks |-> Append(st.blocks, [code_block |-> parsed.code_block,
                                      explanation |-> cachedExplanation]),
        cache |-> st.cache]
  ELSE [blocks |-> Append(st.blocks, [code_block |-> parsed.code_block,
                                      explanation |-> parsed.explanation]),
        cache |-> MapSet(st.cache, blockHash, parsed.explanation)]

\* (a line that JSON.parse rejects takes the analysis to its catch block,
\* which replaces the blocks of the file by one error block)
ProcessParsedRaising(parsed, st) ==
  IF ~parsed.ok
  THEN [blocks |-> <<[code_block |-> <<"/", "/", " ", "E", "r", "r", "o", "r">>,
                      explanation |-> <<"x">>]>>,
        cache |-> st.cache]
  ELSE IF parsed.code_block = <<>> \/ parsed.explanation = <<>> THEN st
  ELSE BlockOfRecord(parsed, createBlockHash(parsed.code_block),
                     MapGet(closureBlockCache, createBlockHash(parsed.code_block)), st)

ProcessParsed(parsed, st) ==
  IF ~parsed.ok THEN st
  ELSE IF parsed.code_block = <<>> \/ parsed.explanation = <<>> THEN st
  ELSE LET blockHash == createBlockHash(parsed.code_block) IN
       BlockOfRecord(parsed, blockHash, MapGet(closureBlockCache, blockHash), st)

ProcessTrimmed(trimmedLine, st) ==
  IF trimmedLine = <<>> THEN st
  ELSE IF trimmedLine[1] # "{" THEN st
  ELSE ProcessParsed(JSONParse(trimmedLine), st)

ProcessLine(line, st) == ProcessTrimmed(Trim(line), st)

RECURSIVE ProcessLines(_, _)
ProcessLines(lines, st) ==
  IF lines = <<>> THEN st ELSE ProcessLines(Tail(lines), ProcessLine(Head(lines), st))

\* (the last, possibly incomplete, segment is thrown away)
RemainderDiscarded(lines) == <<>>

\* buffer = lines.pop() || ''
Remainder(lines) == lines[Len(lines)]

\* One iteration of `for await (const chunk of stream)`: the next n characters
\* of the response arrive as one fragment.
JsonlChunk(n) ==
  /\ phase = "streaming"
  /\ pos + n <= Len(response)
  /\ \E lines \in {SplitLines(buffer \o SubSeq(response, pos + 1, pos + n))} :
     \E st \in {ProcessLines(SubSeq(lines, 1, Len(lines) - 1),
                             [blocks |-> blocks, cache |-> globalBlockCache])} :
       /\ pos' = pos + n
       /\ buffer' = Remainder(lines)
       /\ blocks' = st.blocks
       /\ stored' = IF st.blocks # blocks THEN st.blocks ELSE stored
       /\ globalBlockCache' = st.cache
  /\ UNCHANGED <<orchVars, viewVars, auxVars, markerVars, response, phase, closureBlockCache, lineKinds, tailKind>>

\* (the buffer left at the end of the stream is dropped)
FlushBufferDropped(rest, st) == st

\* if (buffer.trim() && buffer.trim().startsWith('{')) { ... JSON.parse(buffer.trim()) ... }
FlushBuffer(rest, st) == ProcessLine(rest, st)

\* The stream ends: the rest of the buffer is parsed as one more line.
JsonlEnd ==
  /\ phase = "streaming"
  /\ pos = Len(response)
  /\ phase' = "done"
  /\ \E st \in {FlushBuffer(buffer, [blocks |-> blocks, cache |-> globalBlockCache])} :
       /\ blocks' = st.blocks
       /\ stored' = IF st.blocks # blocks THEN st.blocks ELSE stored
       /\ globalBlockCache' = st.cache
  /\ UNCHANGED <<orchVars, viewVars, auxVars, markerVars, response, pos, buffer, closureBlockCache, lineKinds,
                 tailKind>>

\* ------------------------------------------------- responses of the model
JsonRecord(code, expl) ==
  <<"{", Quote>> \o KeyCodeBlock \o <<Quote, ":", Quote>> \o code
    \o <<Quote, ",", " ", Quote>> \o KeyExplanation \o <<Quote, ":", " ", Quote>> \o expl
    \o <<Quote, "}">>

LineKinds == {"ab", "cd", "noExpl", "prose", "cut"}

\* The text of a line of each kind, and the record it carries (none: <<>>).
LineText(k) ==
  CASE k = "ab" -> JsonRecord(<<"a">>, <<"b">>)
    [] k = "cd" -> <<" ">> \o JsonRecord(<<"c">>, <<"d">>) \o <<CR>>
    [] k = "noExpl" -> JsonRecord(<<"a">>, <<>>)
    [] k = "prose" -> <<"a", " ", "b">>
    [] k = "cut" -> <<"{", Quote, "c", "o", "d", "e">>
    [] k = "c_e" -> JsonRecord(<<" ", "c">>, <<"e">>)
    [] OTHER -> <<>>

LineRecord(k) ==
  CASE k = "ab" -> <<[code_block |-> <<"a">>, explanation |-> <<"b">>]>>
    [] k = "cd" -> <<[code_block |-> <<"c">>, explanation |-> <<"d">>]>>
    [] k = "noExpl" -> <<[code_block |-> <<"a">>, explanation |-> <<>>]>>
    [] k = "c_e" -> <<[code_block |-> <<" ", "c">>, explanation |-> <<"e">>]>>
    [] OTHER -> <<>>

ResponseText(kinds, tail) ==
  Flatten([i \in 1..Len(kinds) |-> LineText(kinds[i]) \o <<LF>>]) \o LineText(tail)

\* lines of a response
MaxLines == 2

\* What an earlier analysis of the session left in the block cache.
SessionBlockCache == {<<createBlockHash(<<" ", "a", LF>>), <<"x">>>>}

SeqsUpTo(S, n) == UNION {[1..k -> S] : k \in 0..n}

\* One analysis in the parser specifications: the orchestrator is at rest.
OrchestratorIdle(v) ==
  /\ variant = v
  /\ fileTree = <<"A">>
  /\ fileContent = [f \in FileSet |-> "code"]
  /\ apiKey = "user"
  /\ selectedFile = NoFile
  /\ explanationsCache = [f \in FileSet |-> NoExplanation]
  /\ processingStatus = [f \in FileSet |-> "idle"]
  /\ processingQueue = <<>>
  /\ deepDiveStatus = IdleDeepDive
  /\ rendered = Snapshot
  /\ dirty = {}
  /\ syncRender = FALSE
  /\ streams = [f \in FileSet |-> <<>>]
  /\ dives = <<>>
  /\ outOfOrder = FALSE
  /\ enqueued = {}
  /\ raised = {}

InitJsonl ==
  /\ lineKinds \in SeqsUpTo(LineKinds, MaxLines)
  /\ tailKind \in {"none", "ab", "cut"}
  /\ response = ResponseText(lineKinds, tailKind)
  /\ pos = 0
  /\ phase = "streaming"
  /\ buffer = <<>>
  /\ blocks = <<>>
  /\ stored = <<>>
  /\ globalBlockCache = SessionBlockCache
  /\ closureBlockCache = globalBlockCache
  /\ mode = "find_code"
  /\ currentCodeBlock = <<>>
  /\ updatePending = FALSE
  /\ records = <<>>
  /\ OrchestratorIdle("jsonl")
  /\ ViewIdle
  /\ AuxIdle

NextJsonl ==
  \/ \E n \in 1..Len(response) : JsonlChunk(n)
  \/ JsonlEnd

SpecJsonl == InitJsonl /\ [][NextJsonl]_vars

\* A response whose records repeat a piece of code with other whitespace.
DuplicateKinds == {"cd", "c_e"}

JsonlStart(kinds, tail) ==
  /\ lineKinds = kinds
  /\ tailKind = tail
  /\ response = ResponseText(kinds, tail)
  /\ pos = 0
  /\ phase = "streaming"
  /\ buffer = <<>>
  /\ blocks = <<>>
  /\ stored = <<>>
  /\ globalBlockCache = SessionBlockCache
  /\ closureBlockCache = globalBlockCache
  /\ mode = "find_code"
  /\ currentCodeBlock = <<>>
  /\ updatePending = FALSE
  /\ records = <<>>
  /\ OrchestratorIdle("jsonl")
  /\ ViewIdle
  /\ AuxIdle

InitDuplicate == \E kinds \in SeqsUpTo(DuplicateKinds, MaxLines) : JsonlStart(kinds, "none")

SpecDuplicate == InitDuplicate /\ [][NextJsonl]_vars

\* A response whose last line is not terminated by a newline.
FinalKinds == {"ab", "prose"}
FinalTails == {"ab", "cd", "c_e", "cut"}

InitFinal ==
  \E kinds \in SeqsUpTo(FinalKinds, MaxLines) : \E tail \in FinalTails : JsonlStart(kinds, tail)

SpecFinal == InitFinal /\ [][NextJsonl]_vars

\* ==================================================== the marker parser
CODE_MARKER == <<"-", "-", "-", "C", "O", "D", "E", "-", "-", "-">>
EXPLANATION_MARKER ==
  <<"-", "-", "-", "E", "X", "P", "L", "A", "N", "A", "T", "I", "O", "N", "-", "-", "-">>

\* s.indexOf(m), 1-based; 0 when absent
IndexOf(s, m) ==
  LET found == {i \in 1..(Len(s) - Len(m) + 1) :
                  s[i] = m[1] /\ SubSeq(s, i, i + Len(m) - 1) = m}
  IN IF found = {} THEN 0 ELSE CHOOSE i \in found : \A j \in found : i <= j

\* (the newlines next to the markers stay in the code block)
KeepNewlines(codeBlock) == codeBlock

\* codeBlock.startsWith('\n') -> substring(1); codeBlock.endsWith('\n') -> slice(0, -1)
StripNewlines(codeBlock) ==
  LET start == IF codeBlock # <<>> /\ codeBlock[1] = LF THEN 2 ELSE 1
      end == IF Len(codeBlock) >= start /\ codeBlock[Len(codeBlock)] = LF
             THEN Len(codeBlock) - 1 ELSE Len(codeBlock)
  IN SubSeq(codeBlock, start, end)

\* The functional updates of explanationsCache are queued and run by the next
\* render.  An update made while none is pending may also run at once.  The
\* queue is kept in applied form: what an update does to the block list of
\* the file is recorded when it is queued, and the one value it reads when it
\* runs, the variable currentCodeBlock, stays open (Deferred) until the
\* render.  A parser state st is [buffer, mode, currentCodeBlock, blocks,
\* updatePending, eager]; eager says that an update made while none is pending
\* runs at once.
Deferred == <<"currentCodeBlock">>

RunsAtOnce(st) == st.eager /\ ~st.updatePending

\* prev => [...blocks, {code_block: currentCodeBlock, explanation: ''}]
AppendBlock(st) ==
  [st EXCEPT !.blocks = Append(@, [code_block |-> IF RunsAtOnce(st)
                                                  THEN st.currentCodeBlock ELSE Deferred,
                                   explanation |-> <<>>]),
             !.updatePending = TRUE]

\* prev => the last block's explanation extended by the chunk; prev when the
\* file has no block
AppendExplanation(st, explanationChunk) ==
  IF st.blocks = <<>>
  THEN [st EXCEPT !.updatePending = ~RunsAtOnce(st)]
  ELSE [st EXCEPT !.blocks[Len(st.blocks)].explanation = @ \o explanationChunk,
                  !.updatePending = TRUE]

UnconsumedLength == Len(CODE_MARKER) - 1

\* (nothing is held back: the whole buffer is explanation text)
ProcessableWhole(buf) == Len(buf)

\* what the stream_explanation mode holds back when no CODE marker is in sight
ProcessableLength(buf) == IF Len(buf) - UnconsumedLength > 0 THEN Len(buf) - UnconsumedLength ELSE 0

RECURSIVE processBuffer(_)
processBuffer(st) ==
  IF st.mode = "find_code"
  THEN LET markerIndex == IndexOf(st.buffer, CODE_MARKER) IN
       IF markerIndex = 0 THEN st
       ELSE processBuffer([st EXCEPT
              !.buffer = SubSeq(@, markerIndex + Len(CODE_MARKER), Len(@)),
              !.mode = "find_explanation"])
  ELSE IF st.mode = "find_explanation"
  THEN LET markerIndex == IndexOf(st.buffer, EXPLANATION_MARKER)
           codeBlock == StripNewlines(SubSeq(st.buffer, 1, markerIndex - 1))
           found == [st EXCEPT
                       !.currentCodeBlock = codeBlock,
                       !.buffer = SubSeq(@, markerIndex + Len(EXPLANATION_MARKER), Len(@)),
                       !.mode = "stream_explanation"]
       IN IF markerIndex = 0 THEN st
          ELSE processBuffer(IF codeBlock # <<>> THEN AppendBlock(found) ELSE found)
  ELSE LET nextCodeMarkerIndex == IndexOf(st.buffer, CODE_MARKER)
           processableLength == ProcessableLength(st.buffer)
           held == [st EXCEPT !.buffer = SubSeq(@, processableLength + 1, Len(@))]
           next == [st EXCEPT !.buffer = SubSeq(@, nextCodeMarkerIndex, Len(@)),
                              !.mode = "find_code"]
       IN IF nextCodeMarkerIndex = 0
          THEN IF processableLength > 0
               THEN AppendExplanation(held, SubSeq(st.buffer, 1, processableLength))
               ELSE st
          ELSE processBuffer(
                 IF nextCodeMarkerIndex > 1
                 THEN AppendExplanation(next, SubSeq(st.buffer, 1, nextCodeMarkerIndex - 1))
                 ELSE next)

ParserState(buf, eager) ==
  [buffer |-> buf, mode |-> mode, currentCodeBlock |-> currentCodeBlock,
   blocks |-> stored, updatePending |-> updatePending, eager |-> eager]

EagerChoices == IF updatePending THEN {FALSE} ELSE BOOLEAN

\* One iteration of `for await (const chunk of stream)` of
\* streamAndCacheExplanation: the next n characters arrive as one fragment.
MarkerChunk(n) ==
  /\ phase = "streaming"
  /\ pos + n <= Len(response)
  /\ \E eager \in EagerChoices :
     \E st \in {processBuffer(ParserState(buffer \o SubSeq(response, pos + 1, pos + n),
                                          eager))} :
       /\ pos' = pos + n
       /\ buffer' = st.buffer
       /\ mode' = st.mode
       /\ currentCodeBlock' = st.currentCodeBlock
       /\ stored' = st.blocks
       /\ updatePending' = st.updatePending
  /\ UNCHANGED <<orchVars, viewVars, auxVars, jsonlVars, response, phase, records>>

\* explanation: block.explanation.trim() for every block
TrimExplanations(bs) ==
  [i \in 1..Len(bs) |-> [bs[i] EXCEPT !.explanation = Trim(@)]]

\* after the loop: the rest of the buffer goes to the last block
\* (what is left in the buffer when the stream ends is thrown away)
FlushDropped(st) == [st EXCEPT !.buffer = <<>>]

Flush(st) ==
  IF st.buffer # <<>> THEN AppendExplanation([st EXCEPT !.buffer = <<>>], st.buffer) ELSE st

\* The stream ends: the flush, then the updates of the finally block.
MarkerEnd ==
  /\ phase = "streaming"
  /\ pos = Len(response)
  /\ phase' = "done"
  /\ \E eager \in EagerChoices :
     \E st \in {Flush(ParserState(buffer, eager))} :
       /\ buffer' = st.buffer
       /\ stored' = TrimExplanations(st.blocks)
  /\ updatePending' = TRUE
  /\ UNCHANGED <<orchVars, viewVars, auxVars, jsonlVars, response, pos, mode, currentCodeBlock, records>>

\* the queued updates run: each open code_block reads currentCodeBlock now
RunUpdates(bs, codeNow) ==
  [i \in 1..Len(bs) |->
     IF bs[i].code_block = Deferred THEN [bs[i] EXCEPT !.code_block = codeNow] ELSE bs[i]]

\* A render of App between two fragments, or after the stream.
MarkerRender ==
  /\ updatePending
  /\ updatePending' = FALSE
  /\ stored' = RunUpdates(stored, currentCodeBlock)
  /\ UNCHANGED <<orchVars, viewVars, auxVars, jsonlVars, response, pos, phase, buffer, mode, currentCodeBlock,
                 records>>

\* ------------------------------------------------- responses of the model
RecordText(r) == CODE_MARKER \o r.code \o EXPLANATION_MARKER \o r.explanation

MarkerResponse(rs) == Flatten([i \in 1..Len(rs) |-> RecordText(rs[i])])

RecordKinds ==
  {[code |-> <<"a">>, explanation |-> <<"b">>],
   [code |-> <<LF, "c", LF>>, explanation |-> <<LF, "d", LF>>],
   [code |-> <<LF>>, explanation |-> <<"e">>]}

\* records of a marker response
MaxRecords == 3

MarkerStart ==
  /\ response = MarkerResponse(records)
  /\ pos = 0
  /\ phase = "streaming"
  /\ buffer = <<>>
  /\ mode = "find_code"
  /\ currentCodeBlock = <<>>
  /\ stored = <<>>
  /\ updatePending = FALSE
  /\ blocks = <<>>
  /\ globalBlockCache = {}
  /\ closureBlockCache = {}
  /\ lineKinds = <<>>
  /\ tailKind = "none"
  /\ OrchestratorIdle("marker")
  /\ ViewIdle
  /\ AuxIdle

InitMarker == records \in SeqsUpTo(RecordKinds, MaxRecords) /\ MarkerStart

NextMarker ==
  \/ \E n \in 1..Len(response) : MarkerChunk(n)
  \/ MarkerEnd
  \/ MarkerRender

SpecMarker == InitMarker /\ [][NextMarker]_vars

\* characters of the code text and of the explanation text of the one record
MaxCode == 3
MaxExplanation == 2

Texts(n) == SeqsUpTo({"x", LF}, n)

\* A response of one record: marker, code text, marker, explanation text.
InitRecord ==
  /\ records \in {<<[code |-> c, explanation |-> e]>> :
                    c \in Texts(MaxCode), e \in Texts(MaxExplanation)}
  /\ MarkerStart

SpecRecord == InitRecord /\ [][NextMarker]_vars

\* characters of a long explanation text
MaxTail == 11

\* A response whose first record has the code text a and an explanation text
\* of up to MaxTail letters, alone or followed by a second record.
InitHeld ==
  /\ \E n \in 0..MaxTail :
       records \in {<<[code |-> <<"a">>, explanation |-> [i \in 1..n |-> "x"]]>> \o rest :
                      rest \in SeqsUpTo({[code |-> <<"a">>, explanation |-> <<"b">>]}, 1)}
  /\ MarkerStart

SpecHeld == InitHeld /\ [][NextMarker]_vars

\* A response of two records: any first record, then a record with the code
\* text a and any explanation text.
InitTail ==
  /\ records \in {<<r, [code |-> <<"a">>, explanation |-> e]>> :
                    r \in RecordKinds, e \in Texts(MaxExplanation)}
  /\ MarkerStart

SpecTail == InitTail /\ [][NextMarker]_vars

\* ================================== the marker parser of the earlier App
\* prev => the last block's explanation extended by the chunk and trimmed
AppendExplanationTrimmed(st, explanationChunk) ==
  IF st.blocks = <<>>
  THEN [st EXCEPT !.updatePending = ~RunsAtOnce(st)]
  ELSE [st EXCEPT !.blocks[Len(st.blocks)].explanation = Trim(@ \o explanationChunk),
                  !.updatePending = TRUE]

\* processBuffer of the earlier streamAndCacheExplanation: in the mode
\* stream_explanation a buffer without a CODE marker is explanation text as
\* a whole.
RECURSIVE processBufferWhole(_)
processBufferWhole(st) ==
  IF st.mode = "find_code"
  THEN LET markerIndex == IndexOf(st.buffer, CODE_MARKER) IN
       IF markerIndex = 0 THEN st
       ELSE processBufferWhole([st EXCEPT
              !.buffer = SubSeq(@, markerIndex + Len(CODE_MARKER), Len(@)),
              !.mode = "find_explanation"])
  ELSE IF st.mode = "find_explanation"
  THEN LET markerIndex == IndexOf(st.buffer, EXPLANATION_MARKER)
           codeContent == StripNewlines(SubSeq(st.buffer, 1, markerIndex - 1))
           found == [st EXCEPT
                       !.currentCodeBlock = codeContent,
                       !.buffer = SubSeq(@, markerIndex + Len(EXPLANATION_MARKER), Len(@)),
                       !.mode = "stream_explanation"]
       IN IF markerIndex = 0 THEN st
          ELSE processBufferWhole(IF codeContent # <<>> THEN AppendBlock(found) ELSE found)
  ELSE LET nextCodeMarkerIndex == IndexOf(st.buffer, CODE_MARKER)
           next == [st EXCEPT !.buffer = SubSeq(@, nextCodeMarkerIndex, Len(@)),
                              !.mode = "find_code"]
       IN IF nextCodeMarkerIndex = 0
          THEN IF st.buffer # <<>>
               THEN AppendExplanation([st EXCEPT !.buffer = <<>>], st.buffer)
               ELSE st
          ELSE processBufferWhole(
                 IF nextCodeMarkerIndex > 1
                 THEN AppendExplanationTrimmed(next, SubSeq(st.buffer, 1, nextCodeMarkerIndex - 1))
                 ELSE next)

\* after the loop: what the buffer holds before a CODE marker, trimmed, goes
\* to the last block
FlushWhole(st) ==
  LET finalCodeMarkerIndex == IndexOf(st.buffer, CODE_MARKER)
      finalExplanationChunk ==
        Trim(IF finalCodeMarkerIndex # 0 THEN SubSeq(st.buffer, 1, finalCodeMarkerIndex - 1)
             ELSE st.buffer)
  IN IF finalExplanationChunk # <<>> THEN AppendExplanationTrimmed(st, finalExplanationChunk)
     ELSE st

\* One iteration of `for await (const chunk of stream)`.
WholeChunk(n) ==
  /\ phase = "streaming"
  /\ pos + n <= Len(response)
  /\ \E eager \in EagerChoices :
     \E st \in {processBufferWhole(ParserState(buffer \o SubSeq(response, pos + 1, pos + n),
                                               eager))} :
       /\ pos' = pos + n
       /\ buffer' = st.buffer
       /\ mode' = st.mode
       /\ currentCodeBlock' = st.currentCodeBlock
       /\ stored' = st.blocks
       /\ updatePending' = st.updatePending
  /\ UNCHANGED <<orchVars, viewVars, auxVars, jsonlVars, response, phase, records>>

\* The stream ends: the flush; the finally block only sets the status.
WholeEnd ==
  /\ phase = "streaming"
  /\ pos = Len(response)
  /\ phase' = "done"
  /\ \E eager \in EagerChoices :
     \E st \in {FlushWhole(ParserState(buffer, eager))} :
       /\ stored' = st.blocks
       /\ updatePending' = st.updatePending
  /\ UNCHANGED <<orchVars, viewVars, auxVars, jsonlVars, response, pos, buffer, mode,
                 currentCodeBlock, records>>

\* A response of two records.
InitWhole == records \in {<<r, q>> : r \in RecordKinds, q \in RecordKinds} /\ MarkerStart

NextWhole ==
  \/ \E n \in 1..Len(response) : WholeChunk(n)
  \/ WholeEnd
  \/ MarkerRender

SpecWhole == InitWhole /\ [][NextWhole]_vars

\* ======================================================== the code view
\* (the search starts at the beginning of the string whatever the position)
IndexOfAnywhere(s, t, position) ==
  LET found == {p \in 0..(Len(s) - Len(t)) : SubSeq(s, p + 1, p + Len(t)) = t}
  IN IF found = {} THEN 0 - 1 ELSE CHOOSE p \in found : \A q \in found : p <= q

\* String.prototype.indexOf(searchString, position), 0-based; -1 when absent.
\* The position is clamped to 0..length.
IndexOfFrom(s, t, position) ==
  LET start == IF position < 0 THEN 0 ELSE IF position > Len(s) THEN Len(s) ELSE position
      found == {p \in start..(Len(s) - Len(t)) : SubSeq(s, p + 1, p + Len(t)) = t}
  IN IF found = {} THEN 0 - 1 ELSE CHOOSE p \in found : \A q \in found : p <= q

\* s.replace(/\n/g, '\r\n')
ReplaceLF(s) == Flatten([i \in 1..Len(s) |-> IF s[i] = LF THEN <<CR, LF>> ELSE <<s[i]>>])

\* String.prototype.substring(start), and substring(0, end)
SubstringFrom(s, start) == SubSeq(s, start + 1, Len(s))
SubstringTo(s, end) == SubSeq(s, 1, end)

\* lines.join('\n')
JoinLines(ls) ==
  Flatten([k \in 1..Len(ls) |-> IF k < Len(ls) THEN ls[k] \o <<LF>> ELSE ls[k]])

normalizeWhitespace(text) == CollapseWhitespace(Trim(text))

\* the widest window of source lines compared with a block
MaxWindow == 5

\* The third attempt of findBlock: the first window of up to MaxWindow source
\* lines, by starting line and then by size, that equals the block after
\* whitespace normalisation.
WindowMatches(sourceLines, normalizedBlock) ==
  {iw \in (0..(Len(sourceLines) - 1)) \X (1..MaxWindow) :
     /\ iw[2] <= Len(sourceLines) - iw[1]
     /\ normalizeWhitespace(JoinLines(SubSeq(sourceLines, iw[1] + 1, iw[1] + iw[2])))
          = normalizedBlock}

\* (the window of the fewest lines, and among those the first)
FewestLinesWindow(ws) ==
  CHOOSE iw \in ws : \A o \in ws : iw[2] < o[2] \/ (iw[2] = o[2] /\ iw[1] <= o[1])

FirstWindow(ws) ==
  CHOOSE iw \in ws : \A o \in ws : iw[1] < o[1] \/ (iw[1] = o[1] /\ iw[2] <= o[2])

\* (the third attempt hands back the block of the model, not the source text)
findBlockNormalizedAsAsked(source, blockFromAI, startIndex) ==
  LET sourceLines == SplitLines(SubstringFrom(source, startIndex))
      ws == WindowMatches(sourceLines, normalizeWhitespace(blockFromAI))
  IN IF ws = {} THEN NoMatch
     ELSE LET iw == FirstWindow(ws)
              beforeCandidate == JoinLines(SubSeq(sourceLines, 1, iw[1]))
          IN [found |-> TRUE,
              index |-> startIndex + (IF iw[1] > 0 THEN Len(beforeCandidate) + 1 ELSE 0),
              content |-> blockFromAI]

findBlockNormalized(source, blockFromAI, startIndex) ==
  LET sourceLines == SplitLines(SubstringFrom(source, startIndex))
      ws == WindowMatches(sourceLines, normalizeWhitespace(blockFromAI))
  IN IF ws = {} THEN NoMatch
     ELSE LET iw == FirstWindow(ws)
              beforeCandidate == JoinLines(SubSeq(sourceLines, 1, iw[1]))
          IN [found |-> TRUE,
              index |-> startIndex + (IF iw[1] > 0 THEN Len(beforeCandidate) + 1 ELSE 0),
              content |-> JoinLines(SubSeq(sourceLines, iw[1] + 1, iw[1] + iw[2]))]

\* (no attempt with \r\n line endings)
findBlockWithoutCRLF(source, blockFromAI, startIndex) ==
  IF blockFromAI = <<>> THEN NoMatch
  ELSE LET index == IndexOfFrom(source, blockFromAI, startIndex)
       IN IF index # 0 - 1 THEN [found |-> TRUE, index |-> index, content |-> blockFromAI]
          ELSE findBlockNormalized(source, blockFromAI, startIndex)

findBlock(source, blockFromAI, startIndex) ==
  IF blockFromAI = <<>> THEN NoMatch
  ELSE LET index == IndexOfFrom(source, blockFromAI, startIndex)
           blockWithCRLF == ReplaceLF(blockFromAI)
           indexCRLF == IndexOfFrom(source, blockWithCRLF, startIndex)
       IN IF index # 0 - 1 THEN [found |-> TRUE, index |-> index, content |-> blockFromAI]
          ELSE IF blockWithCRLF # blockFromAI /\ indexCRLF # 0 - 1
               THEN [found |-> TRUE, index |-> indexCRLF, content |-> blockWithCRLF]
               ELSE findBlockNormalized(source, blockFromAI, startIndex)

\* findBlock on its own: a source, one block and a position to search from.
MaxSource == 4
MaxCandidate == 2
MatcherAlphabet == {"a", LF, CR}

Locate ==
  /\ blockIndex = 0
  /\ Len(viewBlocks) = 1
  /\ match' = findBlock(sourceCode, viewBlocks[1].code_block, lastIndex)
  /\ blockIndex' = 1
  /\ UNCHANGED <<orchVars, parseVars, auxVars, sourceCode, viewBlocks, lastIndex, metadata>>

InitMatcher ==
  /\ sourceCode \in SeqsUpTo(MatcherAlphabet, MaxSource)
  /\ \E c \in SeqsUpTo(MatcherAlphabet, MaxCandidate) :
       viewBlocks = <<[code_block |-> c, explanation |-> <<"x">>]>>
  /\ lastIndex \in 0..Len(sourceCode)
  /\ blockIndex = 0
  /\ metadata = <<>>
  /\ match = NoMatch
  /\ ParserIdle
  /\ OrchestratorIdle("jsonl")
  /\ AuxIdle

SpecMatcher == InitMatcher /\ [][Locate]_vars

\* ---------------------------------------------------- the line projection
\* (text.match(/\n/g) || []).length
CountNewlines(text) == Cardinality({i \in 1..Len(text) : text[i] = LF})

\* (lines counted from 0)
startLineFromZero(currentIndex) == CountNewlines(SubstringTo(sourceCode, currentIndex))

startLine(currentIndex) == CountNewlines(SubstringTo(sourceCode, currentIndex)) + 1
endLine(currentIndex, verbatimContent) ==
  startLine(currentIndex) + CountNewlines(verbatimContent)

\* for (let i = startLine; i <= endLine; i++) metadata.set(i, { blockIndex })
SetLines(md, first, last, index) ==
  [l \in DOMAIN md \cup first..last |-> IF l \in first..last THEN index ELSE md[l]]

\* (the cursor moves to the end of the source when a block is not found)
CursorToEnd(m) == IF m.found THEN m.index + Len(m.content) ELSE Len(sourceCode)

\* (the cursor goes back to the start of the source after every block)
CursorRewound(m) == 0

\* (the cursor stops where the match begins)
CursorAtMatch(m) == IF m.found THEN m.index ELSE lastIndex

\* lastIndex after a block: behind the match, or where it was
CursorAfter(m) == IF m.found THEN m.index + Len(m.content) ELSE lastIndex

\* One iteration of explanation.blocks.forEach in lineMetadata.  A block with
\* an empty code_block is skipped like one that findBlock does not find.
ProjectBlock ==
  /\ sourceCode # <<>>
  /\ blockIndex < Len(viewBlocks)
  /\ \E m \in {findBlock(sourceCode, viewBlocks[blockIndex + 1].code_block, lastIndex)} :
       /\ match' = m
       /\ metadata' = IF m.found
                       THEN SetLines(metadata, startLine(m.index),
                                     endLine(m.index, m.content), blockIndex)
                       ELSE metadata
       /\ lastIndex' = CursorAfter(m)
  /\ blockIndex' = blockIndex + 1
  /\ UNCHANGED <<orchVars, parseVars, auxVars, sourceCode, viewBlocks>>

\* blocks of the explanation shown
MaxViewBlocks == 2
ProjectorAlphabet == {"a", LF}
ProjectorCode == SeqsUpTo(ProjectorAlphabet, MaxCandidate)
ProjectorBlocks == {[code_block |-> c, explanation |-> <<"x">>] : c \in ProjectorCode}
\* a file of three lines and the block of its second line
ExampleSource == <<"a", LF, "b", LF, "c", LF>>
ExampleBlocks == <<[code_block |-> <<"b">>, explanation |-> <<"x">>]>>

InitProjector ==
  /\ \/ /\ sourceCode \in SeqsUpTo(ProjectorAlphabet, MaxSource)
        /\ viewBlocks \in SeqsUpTo(ProjectorBlocks, MaxViewBlocks)
     \/ /\ sourceCode = ExampleSource
        /\ viewBlocks = ExampleBlocks
  /\ lastIndex = 0
  /\ blockIndex = 0
  /\ metadata = <<>>
  /\ match = NoMatch
  /\ ParserIdle
  /\ OrchestratorIdle("jsonl")
  /\ AuxIdle

SpecProjector == InitProjector /\ [][ProjectBlock]_vars

\* lines of a source of short lines, words of a block written on one line
MaxSourceLines == 6
MaxWords == 6

\* a, a a, a a a, ...
Words(k) == [i \in 1..(2 * k - 1) |-> IF i % 2 = 1 THEN "a" ELSE " "]

\* findBlock on a source whose lines are a or empty and a block of up to
\* MaxWords words a: only the window scan can find it.
InitWindow ==
  /\ sourceCode \in {JoinLines(ls) : ls \in SeqsUpTo({<<"a">>, <<>>}, MaxSourceLines) \ {<<>>}}
  /\ \E k \in 1..MaxWords :
       viewBlocks = <<[code_block |-> Words(k), explanation |-> <<"x">>]>>
  /\ lastIndex \in 0..Len(sourceCode)
  /\ blockIndex = 0
  /\ metadata = <<>>
  /\ match = NoMatch
  /\ ParserIdle
  /\ OrchestratorIdle("jsonl")
  /\ AuxIdle

SpecWindow == InitWindow /\ [][Locate]_vars

\* characters of a source with either kind of line ending
MaxForward == 3

\* The projection of an explanation of two blocks onto a source whose lines
\* end in LF or in CR LF.
InitForward ==
  /\ sourceCode \in SeqsUpTo(MatcherAlphabet, MaxForward) \ {<<>>}
  /\ viewBlocks \in {<<b, c>> : b \in ProjectorBlocks, c \in ProjectorBlocks}
  /\ lastIndex = 0
  /\ blockIndex = 0
  /\ metadata = <<>>
  /\ match = NoMatch
  /\ ParserIdle
  /\ OrchestratorIdle("jsonl")
  /\ AuxIdle

SpecForward == InitForward /\ [][ProjectBlock]_vars

\* characters of a code block handed to createBlockHash
MaxHashed == 7
HashAlphabet == {"a", " ", LF}

\* const blockHash = createBlockHash(parsed.code_block)
HashBlock ==
  /\ blockKey = <<>>
  /\ blockKey' = createBlockHash(hashedBlock)
  /\ UNCHANGED <<orchVars, parseVars, viewVars, error, errorMessage, envKey, localKey,
                 historyVars, ingestVars, hashedBlock>>

\* createBlockHash on code blocks long enough for the hash to leave 31 bits
InitHash ==
  /\ hashedBlock \in SeqsUpTo(HashAlphabet, MaxHashed)
  /\ blockKey = <<>>
  /\ error = NoError
  /\ errorMessage = ""
  /\ envKey = "none"
  /\ localKey = "none"
  /\ HistoryIdle
  /\ IngestIdle
  /\ ParserIdle
  /\ ViewIdle
  /\ OrchestratorIdle("jsonl")

SpecHash == InitHash /\ [][HashBlock]_vars

\* ======================================================== handleApiError
KeyNotValid == <<"A", "P", "I", " ", "k", "e", "y", " ", "n", "o", "t", " ", "v", "a", "l", "i", "d">>
KeyIsInvalid == <<"A", "P", "I", " ", "k", "e", "y", " ", "i", "s", " ", "i", "n", "v", "a", "l", "i", "d">>
ParseWord == <<"p", "a", "r", "s", "e">>

\* error.message.includes(t)
Includes(message, t) == IndexOf(message, t) > 0

\* The message of an error is the concatenation of its fragments.
MessageOf(e) == Flatten(e.fragments)

isEnvKey(key) == envKey # "none" /\ key = envKey

\* (the word parse is looked for before the key phrases)
handleApiErrorParseFirst(e, key) ==
  IF ~e.isError
  THEN [message |-> "An unexpected error occurred.", apiKey |-> key, localKey |-> localKey]
  ELSE IF Includes(MessageOf(e), ParseWord)
  THEN [message |-> "The response from the AI was not in the expected format.",
        apiKey |-> key, localKey |-> localKey]
  ELSE IF Includes(MessageOf(e), KeyNotValid) \/ Includes(MessageOf(e), KeyIsInvalid)
  THEN IF isEnvKey(key)
       THEN [message |-> "The API Key provided by the environment appears to be invalid.",
             apiKey |-> key, localKey |-> localKey]
       ELSE [message |-> "The provided API Key is invalid. Please enter a valid key.",
             apiKey |-> "none", localKey |-> "none"]
  ELSE [message |-> "An error occurred while communicating with the API.",
        apiKey |-> key, localKey |-> localKey]

\* The message handleApiError returns for the error e, and the key of the
\* session and the key of localStorage after it.
handleApiError(e, key) ==
  IF ~e.isError
  THEN [message |-> "An unexpected error occurred.", apiKey |-> key, localKey |-> localKey]
  ELSE IF Includes(MessageOf(e), KeyNotValid) \/ Includes(MessageOf(e), KeyIsInvalid)
  THEN IF isEnvKey(key)
       THEN [message |-> "The API Key provided by the environment appears to be invalid.",
             apiKey |-> key, localKey |-> localKey]
       ELSE [message |-> "The provided API Key is invalid. Please enter a valid key.",
             apiKey |-> "none", localKey |-> "none"]
  ELSE IF Includes(MessageOf(e), ParseWord)
  THEN [message |-> "The response from the AI was not in the expected format.",
        apiKey |-> key, localKey |-> localKey]
  ELSE [message |-> "An error occurred while communicating with the API.",
        apiKey |-> key, localKey |-> localKey]

\* A catch block hands the error it caught to handleApiError.
ClassifyError ==
  /\ errorMessage = ""
  /\ \E r \in {handleApiError(error, apiKey)} :
       /\ errorMessage' = r.message
       /\ apiKey' = r.apiKey
       /\ localKey' = r.localKey
  /\ UNCHANGED <<parseVars, viewVars, variant, fileTree, fileContent, selectedFile,
                 explanationsCache, processingStatus, processingQueue, deepDiveStatus,
                 rendered, dirty, syncRender, streams, dives, outOfOrder, enqueued, raised,
                 error, envKey, historyVars, ingestVars, hashVars>>

\* fragments of an error message
MaxFragments == 2
MessageFragments == {KeyNotValid, KeyIsInvalid, ParseWord, <<"P", "a", "r", "s", "e">>, <<"x">>}

InitApiError ==
  /\ HashIdle
  /\ error \in [isError : BOOLEAN, fragments : SeqsUpTo(MessageFragments, MaxFragments)]
  /\ errorMessage = ""
  /\ envKey \in {"none", "env"}
  /\ apiKey \in {"user", "env"}
  /\ localKey \in {"none", apiKey}
  /\ variant = "jsonl"
  /\ fileTree = <<"A">>
  /\ fileContent = [f \in FileSet |-> "code"]
  /\ selectedFile = NoFile
  /\ explanationsCache = [f \in FileSet |-> NoExplanation]
  /\ processingStatus = [f \in FileSet |-> "idle"]
  /\ processingQueue = <<>>
  /\ deepDiveStatus = IdleDeepDive
  /\ rendered = Snapshot
  /\ dirty = {}
  /\ syncRender = FALSE
  /\ streams = [f \in FileSet |-> <<>>]
  /\ dives = <<>>
  /\ outOfOrder = FALSE
  /\ enqueued = {}
  /\ raised = {}
  /\ ParserIdle
  /\ ViewIdle
  /\ HistoryIdle
  /\ IngestIdle

SpecApiError == InitApiError /\ [][ClassifyError]_vars

\* =========================================================== the history
\* [newEntry, ...prev].slice(0, 50)
HistoryCap == 50

KeepLast(entries) == SubSeq(entries, 1, IF Len(entries) < HistoryCap THEN Len(entries) ELSE HistoryCap)

\* (the list reaches localStorage only when there is no gist to save to)
saveHistoryToLocalStorageUnlessGist(entries, full) ==
  IF full \/ githubToken THEN storedHistory ELSE [entries |-> entries]

\* saveHistoryToLocalStorage: setItem of {entries}; a setItem that throws is
\* caught and logged.
saveHistoryToLocalStorage(entries, full) ==
  IF full THEN storedHistory ELSE [entries |-> entries]

\* saves of one session, and the project states they are taken of
MaxSaves == 2
ProjectStates == {1, 2}

\* saveToHistory: nothing for the project state saved last; otherwise a new
\* entry, whose setHistory updater waits for the render.
saveToHistory(project) ==
  /\ activeHistoryId < MaxSaves
  /\ lastSavedProject # project
  /\ historyUpdates' = Append(historyUpdates, activeHistoryId + 1)
  /\ activeHistoryId' = activeHistoryId + 1
  /\ lastSavedProject' = project
  /\ UNCHANGED <<orchVars, parseVars, viewVars, ingestVars, hashVars, error, errorMessage, envKey, localKey,
                 history, storedHistory, gistHistory, gistSaves, githubToken, storageFull>>

\* The render runs the first waiting updater: the list is written to
\* localStorage, the gist save is started when there is a token, and the
\* list becomes the history.
HistoryRender ==
  /\ historyUpdates # <<>>
  /\ \E updatedHistory \in {KeepLast(<<Head(historyUpdates)>> \o history)} :
       /\ storedHistory' = saveHistoryToLocalStorage(updatedHistory, storageFull)
       /\ gistSaves' = IF githubToken THEN Append(gistSaves, updatedHistory) ELSE gistSaves
       /\ history' = updatedHistory
  /\ historyUpdates' = Tail(historyUpdates)
  /\ UNCHANGED <<orchVars, parseVars, viewVars, ingestVars, hashVars, error, errorMessage, envKey, localKey,
                 gistHistory, githubToken, storageFull, lastSavedProject, activeHistoryId>>

\* saveHistoryToGist resolves: the gist holds the list.
GistSaved(i) ==
  /\ gistHistory' = [entries |-> gistSaves[i]]
  /\ gistSaves' = RemoveAt(gistSaves, i)
  /\ UNCHANGED <<orchVars, parseVars, viewVars, ingestVars, hashVars, error, errorMessage, envKey, localKey,
                 history, storedHistory, githubToken, storageFull, lastSavedProject,
                 historyUpdates, activeHistoryId>>

\* saveHistoryToGist rejects: the .catch logs the error.
GistFailed(i) ==
  /\ gistSaves' = RemoveAt(gistSaves, i)
  /\ UNCHANGED <<orchVars, parseVars, viewVars, ingestVars, hashVars, error, errorMessage, envKey, localKey,
                 history, storedHistory, gistHistory, githubToken, storageFull,
                 lastSavedProject, historyUpdates, activeHistoryId>>

\* entries loaded when the session starts; their ids are below zero
LoadedEntries(n) == [i \in 1..n |-> 0 - i]

InitHistory ==
  /\ HashIdle
  /\ \E n \in {0, 1, HistoryCap - 1, HistoryCap} :
       /\ history = LoadedEntries(n)
       /\ storedHistory = [entries |-> LoadedEntries(n)]
  /\ gistHistory \in {NoEntries, storedHistory}
  /\ gistSaves = <<>>
  /\ githubToken \in BOOLEAN
  /\ storageFull \in BOOLEAN
  /\ lastSavedProject = 0
  /\ historyUpdates = <<>>
  /\ activeHistoryId = 0
  /\ error = NoError
  /\ errorMessage = ""
  /\ envKey = "none"
  /\ localKey = "none"
  /\ IngestIdle
  /\ ParserIdle
  /\ ViewIdle
  /\ OrchestratorIdle("jsonl")

NextHistory ==
  \/ \E project \in ProjectStates : saveToHistory(project)
  \/ HistoryRender
  \/ \E i \in 1..Len(gistSaves) : GistSaved(i)
  \/ \E i \in 1..Len(gistSaves) : GistFailed(i)

SpecHistory == InitHistory /\ [][NextHistory]_vars

\* ==================================================== the welcome screen
FILE_LIMIT == 25

Slash == "/"

\* path.split('/').filter(p => p)
RECURSIVE SplitPath(_)
SplitPath(path) ==
  LET i == IndexOfChar(path, Slash, 1)
      first == IF i = 0 THEN path ELSE SubSeq(path, 1, i - 1)
      rest == IF i = 0 THEN <<>> ELSE SplitPath(SubSeq(path, i + 1, Len(path)))
  IN IF path = <<>> THEN <<>>
     ELSE IF first = <<>> THEN rest ELSE <<first>> \o rest

\* parts.join('/')
JoinPath(parts) ==
  Flatten([k \in 1..Len(parts) |-> IF k < Len(parts) THEN parts[k] \o <<Slash>> ELSE parts[k]])

\* A tree is the list of its nodes below the root, in creation order; parent
\* is the position of the parent node, 0 for the root.  content is the number
\* of the file read, or 0 for null.
\* currentNode.children.find(c => c.name === part)
FindChild(nodes, currentNode, part) ==
  LET found == {k \in 1..Len(nodes) : nodes[k].parent = currentNode /\ nodes[k].name = part}
  IN IF found = {} THEN 0 ELSE CHOOSE k \in found : \A j \in found : k <= j

\* reader.onload: the walk over the parts of the path from the node
\* currentNode on, creating the nodes that are missing
RECURSIVE AddParts(_, _, _, _, _)
AddParts(nodes, currentNode, parts, index, content) ==
  IF index > Len(parts) THEN nodes
  ELSE LET childNode == FindChild(nodes, currentNode, parts[index])
           created == Append(nodes, [name |-> parts[index],
                                     content |-> IF index = Len(parts) THEN content ELSE 0,
                                     path |-> JoinPath(SubSeq(parts, 1, index)),
                                     parent |-> currentNode])
       IN IF childNode = 0
          THEN AddParts(created, Len(created), parts, index + 1, content)
          ELSE AddParts(nodes, childNode, parts, index + 1, content)

\* (a limit that already refuses FILE_LIMIT files)
TooManyAtLimit(count) == count >= FILE_LIMIT

\* selectedFiles.length > FILE_LIMIT, parsedFiles.length > FILE_LIMIT
TooMany(count) == count > FILE_LIMIT

\* The change event of a file input: more than FILE_LIMIT files are refused
\* with an alert; otherwise the reads start.  order is the order in which
\* the reads are going to complete.
handleFileChange(order) ==
  /\ ingestion = "idle"
  /\ selectedFiles # <<>>
  /\ IF TooMany(Len(selectedFiles))
     THEN /\ ingestion' = "refused"
          /\ UNCHANGED <<pendingReads, isLoading>>
     ELSE /\ ingestion' = "reading"
          /\ isLoading' = TRUE
          /\ pendingReads' = order
  /\ UNCHANGED <<orchVars, parseVars, viewVars, hashVars, error, errorMessage, envKey, localKey,
                 historyVars, selectedFiles, pastedCode, root, projectTree>>

\* The next read completes: its file enters the tree; after the last one
\* Promise.all resolves and onProjectReady receives the tree.
FileRead ==
  /\ pendingReads # <<>>
  /\ ingestion \in {"reading", "failed"}
  /\ \E nodes \in {AddParts(root, 0, SplitPath(selectedFiles[Head(pendingReads)]), 1,
                             Head(pendingReads))} :
       /\ root' = nodes
       /\ IF Len(pendingReads) = 1 /\ ingestion = "reading"
          THEN /\ projectTree' = [ready |-> TRUE, nodes |-> nodes]
               /\ ingestion' = "ready"
               /\ isLoading' = FALSE
          ELSE UNCHANGED <<projectTree, ingestion, isLoading>>
  /\ pendingReads' = Tail(pendingReads)
  /\ UNCHANGED <<orchVars, parseVars, viewVars, hashVars, error, errorMessage, envKey, localKey,
                 historyVars, selectedFiles, pastedCode>>

\* The next read fails: Promise.all rejects, the catch logs the error.
FileReadFails ==
  /\ pendingReads # <<>>
  /\ ingestion = "reading"
  /\ pendingReads' = Tail(pendingReads)
  /\ ingestion' = "failed"
  /\ isLoading' = FALSE
  /\ UNCHANGED <<orchVars, parseVars, viewVars, hashVars, error, errorMessage, envKey, localKey,
                 historyVars, selectedFiles, pastedCode, root, projectTree>>

\* A pasted text is a list of lines.  A line is a header of the pattern
\* ------ path ------ (claude), a header of the pattern ### `filename`
\* (legacy), or any other line (text); path is what the pattern captures.
HeaderLines(content, kind) == {k \in 1..Len(content) : content[k].kind = kind}

\* filepath.split('/').pop() || filepath
LastPart(filepath) ==
  LET slashes == {i \in 1..Len(filepath) : filepath[i] = Slash}
      last == IF slashes = {} THEN 0 ELSE CHOOSE i \in slashes : \A j \in slashes : j <= i
  IN IF last = Len(filepath) THEN filepath ELSE SubSeq(filepath, last + 1, Len(filepath))

\* the files of the headers of one kind, each with the lines up to the next
\* header of that kind
FilesOfHeaders(content, kind) ==
  LET matches == HeaderLines(content, kind)
      At(n) == CHOOSE k \in matches : Cardinality({j \in matches : j < k}) = n - 1
      EndOf(n) == IF n < Cardinality(matches) THEN At(n + 1) - 1 ELSE Len(content)
  IN [n \in 1..Cardinality(matches) |->
        [name |-> IF kind = "claude" THEN LastPart(content[At(n)].path) ELSE content[At(n)].path,
         content |-> EndOf(n) - At(n) + 1,
         path |-> content[At(n)].path,
         parent |-> 0]]

PastedName == <<"p">>

parseMultiFileContent(content) ==
  IF HeaderLines(content, "claude") # {} THEN FilesOfHeaders(content, "claude")
  ELSE IF HeaderLines(content, "legacy") # {} THEN FilesOfHeaders(content, "legacy")
  ELSE <<[name |-> PastedName, content |-> Len(content), path |-> PastedName, parent |-> 0]>>

\* The Analyze button of the paste area.
handlePasteSubmit ==
  /\ ingestion = "idle"
  /\ pastedCode # <<>>
  /\ \E parsedFiles \in {parseMultiFileContent(pastedCode)} :
       IF TooMany(Len(parsedFiles))
       THEN /\ ingestion' = "refused"
            /\ UNCHANGED projectTree
       ELSE /\ ingestion' = "ready"
            /\ projectTree' = [ready |-> TRUE, nodes |-> parsedFiles]
  /\ pastedCode' = <<>>
  /\ isLoading' = FALSE
  /\ UNCHANGED <<orchVars, parseVars, viewVars, hashVars, error, errorMessage, envKey, localKey,
                 historyVars, selectedFiles, pendingReads, root>>

\* ------------------------------------------------- selections and pastes
Digits == <<"0", "1", "2", "3", "4", "5", "6", "7", "8", "9">>

\* the name of the i-th file of a large selection: f01, f02, ...
FileName(i) == <<"f", Digits[(i \div 10) + 1], Digits[(i % 10) + 1]>>

\* files beyond FILE_LIMIT in the largest selection, files of a folder
\* selection, lines of a pasted text
MaxOver == 1
MaxSelected == 2
MaxPasteLines == 3

LargeCounts == (FILE_LIMIT - 1)..(FILE_LIMIT + MaxOver)

\* the files of the folder d, by webkitRelativePath
FolderPaths ==
  {<<"d", Slash, "a">>, <<"d", Slash, "b">>, <<"d", Slash, "e", Slash, "a">>}

Distinct(seq) == \A i, j \in 1..Len(seq) : i # j => seq[i] # seq[j]

Selections ==
  {sel \in SeqsUpTo(FolderPaths, MaxSelected) : sel # <<>> /\ Distinct(sel)}
    \cup {[i \in 1..n |-> FileName(i)] : n \in LargeCounts}

\* The orders in which n reads complete: every order of a small selection,
\* first to last and last to first of a large one.
ReadOrders(n) ==
  IF n <= MaxSelected
  THEN {order \in [1..n -> 1..n] : Distinct(order)}
  ELSE {[i \in 1..n |-> i], [i \in 1..n |-> n + 1 - i]}

PasteLines ==
  {[kind |-> "claude", path |-> <<"d", Slash, "a">>], [kind |-> "claude", path |-> <<"a">>],
   [kind |-> "legacy", path |-> <<"a">>], [kind |-> "text", path |-> <<>>]}

Pastes ==
  (SeqsUpTo(PasteLines, MaxPasteLines) \ {<<>>})
    \cup {[i \in 1..n |-> [kind |-> "claude", path |-> FileName(i)]] : n \in LargeCounts}

InitIngest ==
  /\ HashIdle
  /\ \/ selectedFiles \in Selections /\ pastedCode = <<>>
     \/ selectedFiles = <<>> /\ pastedCode \in Pastes
  /\ pendingReads = <<>>
  /\ root = <<>>
  /\ projectTree = NoProject
  /\ isLoading = FALSE
  /\ ingestion = "idle"
  /\ error = NoError
  /\ errorMessage = ""
  /\ envKey = "none"
  /\ localKey = "none"
  /\ HistoryIdle
  /\ ParserIdle
  /\ ViewIdle
  /\ OrchestratorIdle("jsonl")

NextIngest ==
  \/ \E order \in ReadOrders(Len(selectedFiles)) : handleFileChange(order)
  \/ FileRead
  \/ FileReadFails
  \/ handlePasteSubmit

SpecIngest == InitIngest /\ [][NextIngest]_vars

\* ---------------------------------------------------------- specification
InitApp(tree, contents) ==
  /\ variant \in Variants
  /\ fileTree = tree
  /\ fileContent \in [FileSet -> contents]
  /\ apiKey = "user"
  /\ selectedFile = NoFile
  /\ explanationsCache = [f \in FileSet |-> NoExplanation]
  /\ processingStatus = [f \in FileSet |-> "idle"]
  /\ processingQueue = <<>>
  /\ deepDiveStatus = IdleDeepDive
  /\ rendered = Snapshot
  /\ dirty = {}
  /\ syncRender = FALSE
  /\ streams = [f \in FileSet |-> <<>>]
  /\ dives = <<>>
  /\ outOfOrder = FALSE
  /\ enqueued = {}
  /\ raised = {}
  /\ ParserIdle
  /\ ViewIdle
  /\ AuxIdle

\* processAll over a project of three files: the queue, its effect, the streams.
InitQueue == InitApp(<<"A", "B", "C">>, {"code", "empty"})

NextQueue ==
  \/ Render
  \/ handleProcessAll
  \/ \E f \in FileSet : \E i \in 1..Len(streams[f]) : StreamBlock(f, i, MaxBlocks)
  \/ \E f \in FileSet : \E i \in 1..Len(streams[f]) : StreamEnd(f, i)
  \/ \E f \in FileSet : \E i \in 1..Len(streams[f]), kind \in ErrorKinds :
        StreamError(f, i, kind)

SpecQueue == InitQueue /\ [][NextQueue]_vars

\* File selection, processAll and the queue effect over a project of two files.
Init == InitApp(<<"A", "B">>, {"code"})

Next ==
  \/ Render
  \/ \E f \in ProjectFiles : handleSelectFile(f)
  \/ handleProcessAll
  \/ \E f \in FileSet : \E i \in 1..Len(streams[f]) : StreamBlock(f, i, MaxBlocks)
  \/ \E f \in FileSet : \E i \in 1..Len(streams[f]) : StreamEnd(f, i)
  \/ \E f \in FileSet : \E i \in 1..Len(streams[f]), kind \in ErrorKinds :
        StreamError(f, i, kind)

Spec == Init /\ [][Next]_vars

\* Selection in a project of two files that hold code or whitespace only.
InitBlank == InitApp(<<"A", "B">>, {"code", Blank})

NextBlank ==
  \/ Render
  \/ \E f \in ProjectFiles : handleSelectFile(f)
  \/ \E f \in FileSet : \E i \in 1..Len(streams[f]) : StreamBlock(f, i, MaxBlocks)
  \/ \E f \in FileSet : \E i \in 1..Len(streams[f]) : StreamEnd(f, i)
  \/ \E f \in FileSet : \E i \in 1..Len(streams[f]), kind \in ErrorKinds :
        StreamError(f, i, kind)

SpecBlank == InitBlank /\ [][NextBlank]_vars

\* Deep dives on the blocks of one file.
InitDive == InitApp(<<"A">>, {"code"})

NextDive ==
  \/ Render
  \/ \E f \in ProjectFiles : handleSelectFile(f)
  \/ \E f \in FileSet : \E i \in 1..Len(streams[f]) : StreamBlock(f, i, MaxChunks)
  \/ \E f \in FileSet : \E i \in 1..Len(streams[f]) : StreamEnd(f, i)
  \/ \E idx \in 1..MaxChunks : handleDeepDive(idx)
  \/ handleExpandAll
  \/ \E i \in 1..Len(dives) : DiveOpen(i)
  \/ \E i \in 1..Len(dives) : DiveChunk(i)
  \/ \E i \in 1..Len(dives) : DiveEnd(i)
  \/ \E i \in 1..Len(dives), kind \in ErrorKinds : DiveError(i, kind)

SpecDive == InitDive /\ [][NextDive]_vars

\* A deep dive's promise settles: the call resolves or rejects, the stream
\* yields, ends or raises.
DiveTerminates ==
  \E i \in 1..Len(dives) :
    DiveOpen(i) \/ DiveChunk(i) \/ DiveEnd(i) \/ \E kind \in ErrorKinds : DiveError(i, kind)

\* Deep dives on a file whose analysis has completed: one block or two.
AnalysedBlocks == {<<CodeBlock>>, <<CodeBlock, CodeBlock>>}

Analysed(tree) ==
  /\ variant = "jsonl"
  /\ fileTree = tree
  /\ fileContent = [f \in FileSet |-> "code"]
  /\ apiKey = "user"
  /\ selectedFile = "A"
  /\ \E bs \in AnalysedBlocks :
       explanationsCache =
         [f \in FileSet |-> IF f = "A" THEN [has |-> TRUE, blocks |-> bs]
                            ELSE NoExplanation]
  /\ processingStatus = [f \in FileSet |-> IF f = "A" THEN "done" ELSE "idle"]
  /\ processingQueue = <<>>
  /\ deepDiveStatus = IdleDeepDive
  /\ rendered = Snapshot
  /\ dirty = {}
  /\ syncRender = FALSE
  /\ streams = [f \in FileSet |-> <<>>]
  /\ dives = <<>>
  /\ outOfOrder = FALSE
  /\ enqueued = {}
  /\ raised = {}
  /\ ParserIdle
  /\ ViewIdle
  /\ AuxIdle

InitAnalysed == Analysed(<<"A">>)

NextAnalysed ==
  \/ Render
  \/ \E idx \in 1..MaxChunks : handleDeepDive(idx)
  \/ handleExpandAll
  \/ \E i \in 1..Len(dives) : DiveOpen(i)
  \/ \E i \in 1..Len(dives) : DiveChunk(i)
  \/ \E i \in 1..Len(dives) : DiveEnd(i)
  \/ \E i \in 1..Len(dives), kind \in ErrorKinds : DiveError(i, kind)

\* A deep dive on file A next to the analysis of file B.
InitTwoFiles == Analysed(<<"A", "B">>)

NextTwoFiles ==
  \/ Render
  \/ \E f \in ProjectFiles : handleSelectFile(f)
  \/ \E f \in FileSet : \E i \in 1..Len(streams[f]) : StreamBlock(f, i, MaxBlocks)
  \/ \E f \in FileSet : \E i \in 1..Len(streams[f]) : StreamEnd(f, i)
  \/ \E idx \in 1..MaxChunks : handleDeepDive(idx)
  \/ \E i \in 1..Len(dives) : DiveOpen(i)
  \/ \E i \in 1..Len(dives) : DiveChunk(i)
  \/ \E i \in 1..Len(dives) : DiveEnd(i)

SpecTwoFiles == InitTwoFiles /\ [][NextTwoFiles]_vars

\* The same project under either parser, for changes of the selection while
\* streams are in flight.
InitSwitch ==
  /\ variant \in Variants
  /\ fileTree = <<"A", "B">>
  /\ fileContent = [f \in FileSet |-> "code"]
  /\ apiKey = "user"
  /\ selectedFile = "A"
  /\ \E bs \in AnalysedBlocks :
       explanationsCache =
         [f \in FileSet |-> IF f = "A" THEN [has |-> TRUE, blocks |-> bs]
                            ELSE NoExplanation]
  /\ processingStatus = [f \in FileSet |-> IF f = "A" THEN "done" ELSE "idle"]
  /\ processingQueue = <<>>
  /\ deepDiveStatus = IdleDeepDive
  /\ rendered = Snapshot
  /\ dirty = {}
  /\ syncRender = FALSE
  /\ streams = [f \in FileSet |-> <<>>]
  /\ dives = <<>>
  /\ outOfOrder = FALSE
  /\ enqueued = {}
  /\ raised = {}
  /\ ParserIdle
  /\ ViewIdle
  /\ AuxIdle

SpecSwitch == InitSwitch /\ [][NextTwoFiles]_vars

FairSpecAnalysed ==
  InitAnalysed /\ [][NextAnalysed]_vars /\ WF_vars(Render) /\ WF_vars(DiveTerminates)

\* The user logs out: the credential and the state of the session are
\* cleared.  Streams in flight are not cancelled, and the deep-dive status is
\* left as it is.
handleLogout ==
  /\ UiReady
  /\ apiKey' = "none"
  /\ fileTree' = <<>>
  /\ selectedFile' = NoFile
  /\ explanationsCache' = [f \in FileSet |-> NoExplanation]
  /\ processingStatus' = [f \in FileSet |-> "idle"]
  /\ processingQueue' = <<>>
  /\ globalBlockCache' = {}
  /\ dirty' = dirty \cup {"apiKey", "fileTree", "selectedFile", "explanationsCache",
                           "processingStatus", "processingQueue", "globalBlockCache"}
  /\ syncRender' = TRUE
  /\ UNCHANGED <<viewVars, auxVars, variant, fileContent, deepDiveStatus, rendered, streams, dives,
                 outOfOrder, enqueued, raised, response, pos, phase, buffer, blocks, stored,
                 closureBlockCache, lineKinds, tailKind, markerVars>>

\* Analyses of one file, and logout.
InitLogout == InitApp(<<"A">>, {"code"})

NextLogout ==
  \/ Render
  \/ \E f \in ProjectFiles : handleSelectFile(f)
  \/ handleProcessAll
  \/ \E f \in FileSet : \E i \in 1..Len(streams[f]) : StreamBlock(f, i, MaxChunks)
  \/ \E f \in FileSet : \E i \in 1..Len(streams[f]) : StreamEnd(f, i)
  \/ \E f \in FileSet : \E i \in 1..Len(streams[f]), kind \in ErrorKinds :
        StreamError(f, i, kind)
  \/ handleLogout

SpecLogout == InitLogout /\ [][NextLogout]_vars

\* ------------------------------------------------------------ fairness
\* The event loop runs every pending render, and every stream ends or raises.
StreamTerminates(f) ==
  \E i \in 1..Len(streams[f]) :
    StreamEnd(f, i) \/ \E kind \in ErrorKinds : StreamError(f, i, kind)

\* processAll over a project of two files, for the properties of progress
InitFairQueue == InitApp(<<"A", "B">>, {"code", "empty"})

FairSpecQueue ==
  /\ InitFairQueue
  /\ [][NextQueue]_vars
  /\ WF_vars(Render)
  /\ \A f \in FileSet : SF_vars(StreamTerminates(f))

\* ================================================================ claims
QueueStreams == {p \in FileSet \X (1..MaxStreams) :
                   p[2] <= Len(streams[p[1]]) /\ streams[p[1]][p[2]].origin = "queue"}

\* C1: while the queue drains, at most one analysis started by the queue
\* effect is in flight.
C1_OneQueuedAnalysisInFlight == Cardinality(QueueStreams) <= 1

\* C2: the files queued by processAll reach done in queue order, whatever the
\* durations of their streams.
C2_FifoCompletion == ~outOfOrder

\* C3: at most one analysis stream per file is in flight.
C3_SingleFlightPerFile == \A f \in FileSet : Len(streams[f]) <= 1

\* C4: every file whose status becomes processing eventually becomes done,
\* whether its stream ends normally or raises.
C4_ProcessingLeadsToDone ==
  \A f \in FileSet : (processingStatus[f] = "processing") ~> (processingStatus[f] = "done")

C4_Witness == \E f \in FileSet : f \in raised /\ processingStatus[f] = "done"

InQueue(f) == \E k \in 1..Len(processingQueue) : processingQueue[k] = f

\* C5: no queued file leaves the queue without having been analysed.
C5_NoFileDropped ==
  \A f \in enqueued : ~InQueue(f) => processingStatus[f] # "idle"

\* C6: once a file whose analysis raised is done, its Explanation is exactly
\* one synthetic error block.
C6_ErrorYieldsOneSyntheticBlock ==
  \A f \in FileSet :
    (f \in raised /\ processingStatus[f] = "done")
      => (Len(explanationsCache[f].blocks) = 1 /\ explanationsCache[f].blocks[1].kind = "error")

\* C7: at most one deep-dive stream is in flight.
C7_SingleDeepDive == Len(dives) <= 1

\* The records of the newline-terminated lines of the response, in order.
TerminatedRecords == Flatten([i \in 1..Len(lineKinds) |-> LineRecord(lineKinds[i])])

RECURSIVE SelectNonEmpty(_)
SelectNonEmpty(rs) ==
  IF rs = <<>> THEN <<>>
  ELSE IF Head(rs).code_block # <<>> /\ Head(rs).explanation # <<>>
       THEN <<Head(rs)>> \o SelectNonEmpty(Tail(rs))
       ELSE SelectNonEmpty(Tail(rs))

CodeBlocksOf(bs) == [i \in 1..Len(bs) |-> bs[i].code_block]

LoopFinished == phase = "streaming" /\ pos = Len(response)

\* C8 (as stated): when the last fragment has been processed, the blocks are
\* the complete newline-terminated records of the response, one block per
\* record, in record order, however the response was split.
C8_EveryRecordYieldsBlock ==
  LoopFinished => CodeBlocksOf(blocks) = CodeBlocksOf(TerminatedRecords)

\* C8 (amended): the same for the records whose code_block and explanation are
\* both non-empty; a record with an empty field yields no block.
C8_NonEmptyRecordsYieldBlocks ==
  LoopFinished => CodeBlocksOf(blocks) = CodeBlocksOf(SelectNonEmpty(TerminatedRecords))

\* the last fragment of a response of two records has been processed: the
\* blocks are {a, x} (its explanation from the block cache) and {c, d}
C8_Witness ==
  /\ LoopFinished
  /\ lineKinds = <<"ab", "cd">>
  /\ tailKind = "none"
  /\ blocks = <<[code_block |-> <<"a">>, explanation |-> <<"x">>],
                [code_block |-> <<"c">>, explanation |-> <<"d">>]>>

\* The stream is over and every queued update has run.
MarkerFinal == phase = "done" /\ ~updatePending

\* The final block list when the whole response arrives as one fragment.
OneFragment(text, eager) ==
  LET st == Flush(processBuffer([buffer |-> text, mode |-> "find_code",
                                 currentCodeBlock |-> <<>>, blocks |-> <<>>,
                                 updatePending |-> FALSE, eager |-> eager]))
  IN RunUpdates(TrimExplanations(st.blocks), st.currentCodeBlock)

HasDash(s) == \E i \in 1..Len(s) : s[i] = "-"

\* C9: however the response is split into fragments, the final block list is
\* the one that feeding the response as a single fragment gives, and no
\* explanation holds a piece of a marker.
C9_SplitInvariant ==
  MarkerFinal =>
    /\ stored \in {OneFragment(response, eager) : eager \in BOOLEAN}
    /\ \A i \in 1..Len(stored) : ~HasDash(stored[i].explanation)

RemoveFirstNewline(s) == IF s # <<>> /\ s[1] = LF THEN Tail(s) ELSE s
RemoveLastNewline(s) == IF s # <<>> /\ s[Len(s)] = LF THEN SubSeq(s, 1, Len(s) - 1) ELSE s

\* the code text of the one record without the newlines next to the markers
RecordCode == RemoveLastNewline(RemoveFirstNewline(records[1].code))

\* C10 (as stated): a response of one record yields exactly one block: the code
\* text without one leading and one trailing newline, and the explanation text
\* without the newline that follows the marker.
C10_OneRecordOneBlock ==
  MarkerFinal =>
    stored = <<[code_block |-> RecordCode,
                explanation |-> RemoveFirstNewline(records[1].explanation)]>>

\* C10 (amended): a response of one record yields one block, the code text
\* without one leading and one trailing newline and the explanation text
\* trimmed of all leading and trailing whitespace, when that code text is not
\* empty, and no block when it is empty.
C10_OneRecordTrimmedBlock ==
  MarkerFinal =>
    stored = IF RecordCode = <<>> THEN <<>>
             ELSE <<[code_block |-> RecordCode,
                     explanation |-> Trim(records[1].explanation)]>>

\* ---CODE---\nx\n---EXPLANATION---\nx has been parsed: one block {x, x}
C10_Witness ==
  /\ MarkerFinal
  /\ records = <<[code |-> <<LF, "x", LF>>, explanation |-> <<LF, "x">>]>>
  /\ stored = <<[code_block |-> <<"x">>, explanation |-> <<"x">>]>>

\* C11: two blocks of a session whose trimmed, whitespace-collapsed code is the
\* same but whose raw whitespace differs end with the same explanation: the
\* later block's stored explanation is the earlier block's.
NormalizedCode(code) == CollapseWhitespace(Trim(code))

C11_DuplicateTakesEarlierExplanation ==
  phase = "done" =>
    \A i, j \in 1..Len(stored) :
      (/\ i < j
       /\ stored[i].code_block # stored[j].code_block
       /\ NormalizedCode(stored[i].code_block) = NormalizedCode(stored[j].code_block))
      => stored[j].explanation = stored[i].explanation

\* The block findBlock was called with, and the places where a text occurs in
\* the source at or after the position the search starts from.
Candidate == viewBlocks[1].code_block
OccursAt(t, p) ==
  p + Len(t) <= Len(sourceCode) /\ SubSeq(sourceCode, p + 1, p + Len(t)) = t
OccurrencesFrom(t) == {p \in lastIndex..Len(sourceCode) : OccursAt(t, p)}
Located == blockIndex = 1

\* C12: whenever the candidate is an exact substring of the source at a
\* position p at or after searchFrom, findBlock returns the offset p with the
\* candidate itself as the matched text.
C12_ExactMatchAtAnyPosition ==
  Located =>
    \A p \in OccurrencesFrom(Candidate) :
      match = [found |-> TRUE, index |-> p, content |-> Candidate]

\* C12 (as the code has it): for a non-empty candidate that is an exact
\* substring of the source at or after searchFrom, findBlock returns the
\* smallest such offset with the candidate itself as the matched text.
C12_FirstExactMatch ==
  (Located /\ Candidate # <<>> /\ OccurrencesFrom(Candidate) # {}) =>
    /\ match.found
    /\ match.content = Candidate
    /\ match.index \in OccurrencesFrom(Candidate)
    /\ \A p \in OccurrencesFrom(Candidate) : match.index <= p

\* a candidate found at its second occurrence, the first lying before searchFrom
C12_Witness ==
  /\ Located
  /\ Candidate # <<>>
  /\ match.found
  /\ match.index >= lastIndex
  /\ \E q \in 0..(lastIndex - 1) : OccursAt(Candidate, q)

\* C13: for a candidate whose newlines are line feeds only, when the source
\* holds the candidate with \r\n line endings at or after searchFrom and no
\* exact match, findBlock returns the offset of that \r\n occurrence (the
\* first one) and the \r\n text as the matched text.
HasChar(t, c) == \E i \in 1..Len(t) : t[i] = c
LineFeedOnly(t) == HasChar(t, LF) /\ ~HasChar(t, CR)

C13_CRLFMatch ==
  (/\ Located
   /\ LineFeedOnly(Candidate)
   /\ OccurrencesFrom(Candidate) = {}
   /\ OccurrencesFrom(ReplaceLF(Candidate)) # {}) =>
    /\ match.found
    /\ match.content = ReplaceLF(Candidate)
    /\ match.index \in OccurrencesFrom(ReplaceLF(Candidate))
    /\ \A p \in OccurrencesFrom(ReplaceLF(Candidate)) : match.index <= p

C13_Witness ==
  /\ Located
  /\ LineFeedOnly(Candidate)
  /\ OccurrencesFrom(Candidate) = {}
  /\ match.found
  /\ match.index > 0
  /\ match.content = ReplaceLF(Candidate)
  /\ match.content # Candidate

\* One block has just been handled by the projection, and it was located.
BlockHandled == blockIndex' = blockIndex + 1
LinesOf(md, k) == {l \in DOMAIN md : md[l] = k}
NewlinesIn(t) == Cardinality({i \in 1..Len(t) : t[i] = LF})
NewlinesBefore(o) == Cardinality({i \in 1..o : sourceCode[i] = LF})
\* the lines of a block located at offset o with the matched text t
BlockLines(o, t) == (NewlinesBefore(o) + 1)..(NewlinesBefore(o) + 1 + NewlinesIn(t))

\* C14: every block located at offset o with matched text t has exactly the
\* lines from (newlines before o) + 1 through that plus (newlines in t) mapped
\* to its index, and no other line: when it is handled and from then on.
C14_BlockKeepsExactlyItsLines ==
  [][BlockHandled =>
       /\ match'.found =>
            LinesOf(metadata', blockIndex) = BlockLines(match'.index, match'.content)
       /\ \A k \in 0..(blockIndex - 1) : LinesOf(metadata', k) = LinesOf(metadata, k)]_vars

\* C14 (as the code has it): handling a located block maps exactly the lines
\* from (newlines before o) + 1 through that plus (newlines in t) to its
\* index and changes no other line; a line a later block is located on is
\* taken from the earlier block.
C14_BlockMapsExactlyItsLines ==
  [][(BlockHandled /\ match'.found) =>
       /\ LinesOf(metadata', blockIndex) = BlockLines(match'.index, match'.content)
       /\ \A l \in DOMAIN metadata' \ BlockLines(match'.index, match'.content) :
            l \in DOMAIN metadata /\ metadata'[l] = metadata[l]
       /\ DOMAIN metadata \subseteq DOMAIN metadata']_vars

\* the example: source "a\nb\nc\n" and the single block "b" give {2 -> 0}
C14_Witness ==
  /\ sourceCode = ExampleSource
  /\ Len(viewBlocks) = 1
  /\ viewBlocks[1].code_block = <<"b">>
  /\ blockIndex = 1
  /\ match.found
  /\ DOMAIN metadata = {2}
  /\ metadata[2] = 0

\* C15: a block that is not located records no line and leaves the search
\* cursor where it was; the block and its explanation stay in the list.
C15_UnlocatedBlockChangesNothing ==
  [][(BlockHandled /\ ~match'.found) =>
       /\ metadata' = metadata
       /\ lastIndex' = lastIndex
       /\ viewBlocks' = viewBlocks]_vars

\* a block that is not located, after one that was
C15_Witness ==
  /\ blockIndex = 2
  /\ ~match.found
  /\ viewBlocks[2].code_block # <<>>
  /\ lastIndex > 0
  /\ lastIndex < Len(sourceCode)
  /\ LinesOf(metadata, 0) # {}
  /\ LinesOf(metadata, 1) = {}

\* the moves of a file's status that the order idle, processing, done allows
StatusMoves == {<<"idle", "processing">>, <<"processing", "done">>}
StatusInOrder ==
  \A f \in FileSet :
    processingStatus'[f] # processingStatus[f] =>
      <<processingStatus[f], processingStatus'[f]>> \in StatusMoves

\* C16: the status of a file only moves idle -> processing -> done; no
\* operation returns a file from processing or done to idle, or from done to
\* processing.
C16_StatusOnlyAdvances == [][StatusInOrder]_vars

\* C17: the block cache is append-only: an entry that is in the cache stays
\* in it with the same explanation, whatever happens next.
C17_BlockCacheAppendOnly ==
  [][\A entry \in globalBlockCache : entry \in globalBlockCache']_vars

\* The records of all lines of the response, the unterminated last one
\* included, and the blocks they yield with the block cache of the session.
AllRecords == TerminatedRecords \o LineRecord(tailKind)
ExpectedBlock(r) ==
  IF r.code_block = <<"a">> THEN [r EXCEPT !.explanation = <<"x">>] ELSE r
ExpectedBlocks(rs) == [i \in 1..Len(rs) |-> ExpectedBlock(rs[i])]
HasUnparsableLine == \E i \in 1..Len(lineKinds) : lineKinds[i] = "cut"

\* C18: a complete line that is not valid JSON is discarded without raising:
\* the stream ends normally with exactly the blocks of the valid records
\* before and after that line, in order.
C18_UnparsableLineDiscarded ==
  (phase = "done" /\ HasUnparsableLine) =>
    stored = ExpectedBlocks(SelectNonEmpty(AllRecords))

\* a valid record, a line cut short, a valid record: two blocks
C18_Witness ==
  /\ phase = "done"
  /\ lineKinds = <<"ab", "cut">>
  /\ tailKind = "ab"
  /\ stored = <<[code_block |-> <<"a">>, explanation |-> <<"x">>],
                [code_block |-> <<"a">>, explanation |-> <<"x">>]>>

\* The last record of the response, when its code text yields a block.
LastRecord == records[Len(records)]
LastRecordYieldsBlock ==
  records # <<>> /\ RemoveLastNewline(RemoveFirstNewline(LastRecord.code)) # <<>>
Contains(s, t) == t = <<>> \/ IndexOf(s, t) > 0

IsPrefix(s, t) == Len(s) <= Len(t) /\ SubSeq(t, 1, Len(s)) = s
Committed(bs) == SelectSeq(bs, LAMBDA b : b.code_block # Deferred)
RecordCodes ==
  SelectSeq([i \in 1..Len(records) |->
               RemoveLastNewline(RemoveFirstNewline(records[i].code))],
            LAMBDA c : c # <<>>)

\* C20: within one analysis the blocks are appended in arrival order: the
\* stored list of any moment is a prefix, by code_block, of the stored list
\* of every later moment, and its order is the order of the records.
C20_BlocksInArrivalOrder ==
  /\ [][IsPrefix(CodeBlocksOf(Committed(stored)), CodeBlocksOf(Committed(stored')))]_vars
  /\ [](IsPrefix(CodeBlocksOf(Committed(stored)), RecordCodes))

\* C30: whatever rule found it, the matched text of a result of findBlock is
\* the text of the source at the returned position, so index + length of the
\* matched text is the end of the match in the source.
C30_MatchIsSourceText ==
  (Located /\ match.found) =>
    /\ match.index >= 0
    /\ match.index + Len(match.content) <= Len(sourceCode)
    /\ SubSeq(sourceCode, match.index + 1, match.index + Len(match.content)) = match.content

\* a block found by the whitespace-insensitive rule, below the first line
C30_Witness ==
  /\ Located
  /\ match.found
  /\ match.index > 0
  /\ match.content # Candidate
  /\ match.content # ReplaceLF(Candidate)
  /\ match.content # <<>>

\* The text of the stream that has arrived after the last complete
\* ---EXPLANATION--- marker.
Arrived == SubSeq(response, 1, pos)
LastExplanationMarkerEnd ==
  LET ends == {i \in Len(EXPLANATION_MARKER)..Len(Arrived) :
                 SubSeq(Arrived, i - Len(EXPLANATION_MARKER) + 1, i) = EXPLANATION_MARKER}
  IN CHOOSE i \in ends : \A j \in ends : j <= i
SinceMarker == SubSeq(Arrived, LastExplanationMarkerEnd + 1, Len(Arrived))
HeldLength == IF Len(SinceMarker) < 9 THEN Len(SinceMarker) ELSE 9
IsSuffix(s, t) == Len(s) <= Len(t) /\ SubSeq(t, Len(t) - Len(s) + 1, Len(t)) = s
Streaming == phase = "streaming" /\ mode = "stream_explanation"

\* C27: in the stream_explanation mode, after a fragment has been processed
\* with no complete ---CODE--- marker in the buffer, the buffer is exactly
\* the last min(length, 9) characters of the text since the marker, all the
\* text before them is at the end of the last block's explanation, and while
\* the stream runs no explanation loses text it has.
C27_HeldBackTail ==
  /\ [](Streaming =>
          /\ buffer = SubSeq(SinceMarker, Len(SinceMarker) - HeldLength + 1, Len(SinceMarker))
          /\ stored # <<>> =>
               IsSuffix(SubSeq(SinceMarker, 1, Len(SinceMarker) - HeldLength),
                        stored[Len(stored)].explanation))
  /\ [][phase' = "streaming" =>
          /\ Len(stored) <= Len(stored')
          /\ \A i \in 1..Len(stored) :
               IsPrefix(stored[i].explanation, stored'[i].explanation)]_vars

\* ten characters since the marker: one is in the explanation, nine are held
C27_Witness ==
  /\ Streaming
  /\ Len(SinceMarker) = 10
  /\ Len(buffer) = 9
  /\ Len(stored) = 1
  /\ stored[1].explanation = <<"x">>

\* The records of the response whose code text yields a block.
YieldingRecords ==
  SelectSeq(records, LAMBDA r : RemoveLastNewline(RemoveFirstNewline(r.code)) # <<>>)

\* C29: the explanation of every block is made of text of its own record
\* only, the text between the block's ---EXPLANATION--- marker and the next
\* ---CODE--- marker: no code text, marker text or text of another record.
C29_ExplanationFromOwnRecord ==
  /\ Len(stored) <= Len(YieldingRecords)
  /\ \A i \in 1..Len(stored) :
       Contains(YieldingRecords[i].explanation, stored[i].explanation)

\* What the fragments of the error message say, and the key of the session
\* before the error was classified.
Classified == errorMessage # ""
HasFragment(f) == \E i \in 1..Len(error.fragments) : error.fragments[i] = f
SaysKeyInvalid == HasFragment(KeyNotValid) \/ HasFragment(KeyIsInvalid)
SaysParse == HasFragment(ParseWord)

\* C22: handleApiError classifies an Error by its message.  A key phrase
\* gives the invalid-credential message, and the key is cleared (in the
\* session and in localStorage) exactly when it is not the key of the
\* environment; else the word parse gives the format message; else the
\* generic message; in the last two cases the key is left as it is.
C22_ErrorClassification ==
  [][(~Classified /\ Classified' /\ error.isError) =>
       /\ SaysKeyInvalid =>
            /\ errorMessage' \in
                 {"The API Key provided by the environment appears to be invalid.",
                  "The provided API Key is invalid. Please enter a valid key."}
            /\ IF envKey # "none" /\ apiKey = envKey
               THEN apiKey' = apiKey /\ localKey' = localKey
               ELSE apiKey' = "none" /\ localKey' = "none"
       /\ (~SaysKeyInvalid /\ SaysParse) =>
            /\ errorMessage' = "The response from the AI was not in the expected format."
            /\ apiKey' = apiKey /\ localKey' = localKey
       /\ (~SaysKeyInvalid /\ ~SaysParse) =>
            /\ errorMessage' = "An error occurred while communicating with the API."
            /\ apiKey' = apiKey /\ localKey' = localKey]_vars

\* a message with the word parse and a key phrase, and a key the user gave
C22_Witness ==
  /\ error.isError
  /\ SaysParse
  /\ HasFragment(KeyIsInvalid)
  /\ envKey = "env"
  /\ errorMessage = "The provided API Key is invalid. Please enter a valid key."
  /\ apiKey = "none"
  /\ localKey = "none"

DeepDiveText(c, d) == c[d.file].blocks[d.blockIndex].dd

DiveFails(i) == \E kind \in ErrorKinds : DiveError(i, kind)

\* C23: a deep dive that raises leaves the failure message in its block's
\* deep_dive_explanation and clears the flag, and whenever a deep dive is in
\* flight the flag is eventually false again.
C23_DeepDiveErrorHandled ==
  /\ [][\A i \in 1..Len(dives) :
         DiveFails(i) => /\ DeepDiveText(explanationsCache', dives[i]) = "failed"
                         /\ ~deepDiveStatus'.isLoading]_vars
  /\ [](Len(dives) > 0 => <>(~deepDiveStatus.isLoading))

C23_Witness ==
  /\ Len(dives) = 0
  /\ ~deepDiveStatus.isLoading
  /\ \E j \in 1..Len(explanationsCache["A"].blocks) :
       explanationsCache["A"].blocks[j].dd = "failed"

AnalysisInFlight(f) == streams[f] # <<>>

DiveInFlight(f) == \E i \in 1..Len(dives) : dives[i].file = f

\* The view shows file f with the Deep Dive button of block idx, no deep dive
\* is loading and the user presses the button.
DiveRequested(f, idx) ==
  /\ ~syncRender
  /\ rendered.apiKey # "none"
  /\ rendered.selectedFile = f
  /\ ~rendered.deepDiveStatus.isLoading
  /\ idx \in 1..Len(rendered.explanationsCache[f].blocks)
  /\ rendered.explanationsCache[f].blocks[idx].kind = "code"
  /\ rendered.explanationsCache[f].blocks[idx].dd = "absent"
  /\ Len(dives) < MaxDives

\* The user clicks file f, which has content and was never analysed.
AnalysisRequested(f) ==
  /\ ~syncRender
  /\ rendered.apiKey # "none"
  /\ rendered.selectedFile # f
  /\ fileContent[f] = "code"
  /\ rendered.processingStatus[f] = "idle"
  /\ Len(streams[f]) < MaxStreams

OthersKeep(f) == \A g \in FileSet \ {f} : explanationsCache'[g] = explanationsCache[g]

\* C21: with an analysis of B in flight a deep dive on A is accepted and its
\* text reaches A's block; with a deep dive on A in flight an analysis of B
\* starts and its blocks reach B's Explanation; a step of an analysis or of a
\* deep dive leaves the Explanation of every other file as it was.
C21_DiveAndAnalysisIndependent ==
  /\ [](\A idx \in 1..MaxChunks :
         (AnalysisInFlight("B") /\ DiveRequested("A", idx)) => ENABLED handleDeepDive(idx))
  /\ [](DiveInFlight("A") /\ AnalysisRequested("B") => ENABLED handleSelectFile("B"))
  /\ [][(DiveInFlight("A") /\ AnalysisRequested("B") /\ selectedFile' = "B")
          => Len(streams'["B"]) = Len(streams["B"]) + 1]_vars
  /\ [][\A i \in 1..Len(dives) :
          (/\ AnalysisInFlight("B")
           /\ dives[i].file = "A"
           /\ dives[i].phase = "streaming"
           /\ Len(dives') = Len(dives)
           /\ dives'[i].phase = "streamed")
          => /\ DeepDiveText(explanationsCache', dives[i]) = "text"
             /\ OthersKeep("A")]_vars
  /\ [][\A i \in 1..Len(streams["B"]) :
          (/\ DiveInFlight("A")
           /\ Len(streams'["B"]) = Len(streams["B"])
           /\ Len(streams'["B"][i].blocks) > Len(streams["B"][i].blocks))
          => /\ Len(explanationsCache'["B"].blocks) > 0
             /\ OthersKeep("B")]_vars
  /\ [][\A f \in FileSet : streams'[f] # streams[f] => OthersKeep(f)]_vars
  /\ [][\A f \in FileSet :
          (dives' # dives /\ \A i \in 1..Len(dives) : dives[i].file = f) => OthersKeep(f)]_vars

C21_Witness ==
  /\ \E i \in 1..Len(streams["B"]) : Len(streams["B"][i].blocks) > 0
  /\ Len(explanationsCache["B"].blocks) > 0
  /\ \E i \in 1..Len(dives) :
       /\ dives[i].file = "A"
       /\ dives[i].phase = "streamed"
       /\ DeepDiveText(explanationsCache, dives[i]) = "text"

\* The blocks the earlier parser stores when the response arrives as one
\* fragment.
Unsplit ==
  LET st == FlushWhole(processBufferWhole(
              [buffer |-> response, mode |-> "find_code", currentCodeBlock |-> <<>>,
               blocks |-> <<>>, updatePending |-> FALSE, eager |-> TRUE]))
  IN RunUpdates(st.blocks, st.currentCodeBlock)

ExplanationsOf(bs) == [i \in 1..Len(bs) |-> bs[i].explanation]

\* C28: once the stream has ended, the blocks of the earlier parser have the
\* explanations of the unsplit stream whatever the fragments were, and no
\* explanation holds text of a marker.
C28_SplitMarkerRecognised ==
  (phase = "done" /\ ~updatePending)
    => /\ ExplanationsOf(stored) = ExplanationsOf(Unsplit)
       /\ \A i \in 1..Len(stored) : ~HasChar(stored[i].explanation, "-")

\* list is prev with the entry new in front, cut to the cap
UpdatedList(new, prev, list) ==
  /\ Len(list) = IF Len(prev) + 1 < HistoryCap THEN Len(prev) + 1 ELSE HistoryCap
  /\ list[1] = new
  /\ \A k \in 2..Len(list) : list[k] = prev[k - 1]

UpdaterRuns == historyUpdates # <<>> /\ historyUpdates' = Tail(historyUpdates)

GistSaveFails == Len(gistSaves') < Len(gistSaves) /\ gistHistory' = gistHistory

\* C24: while localStorage accepts writes, the updater of a save leaves the
\* updated list both in the history and in localStorage, with or without a
\* gist; a gist save that fails changes neither and raises nothing; and a
\* save that is not a repetition always completes.
C24_LocalSaveIndependentOfGist ==
  /\ [][UpdaterRuns =>
          /\ UpdatedList(Head(historyUpdates), history, history')
          /\ ~storageFull => storedHistory'.entries = history']_vars
  /\ [][GistSaveFails =>
          /\ history' = history
          /\ storedHistory' = storedHistory
          /\ error' = error
          /\ lastSavedProject' = lastSavedProject]_vars
  /\ [](\A project \in ProjectStates :
          (activeHistoryId < MaxSaves /\ lastSavedProject # project)
            => ENABLED saveToHistory(project))
  /\ []((~storageFull /\ historyUpdates = <<>>) => storedHistory.entries = history)

C24_Witness ==
  /\ githubToken
  /\ ~storageFull
  /\ activeHistoryId > 0
  /\ historyUpdates = <<>>
  /\ gistSaves = <<>>
  /\ gistHistory.entries # history
  /\ Len(history) = HistoryCap
  /\ history[1] = activeHistoryId
  /\ storedHistory.entries = history

FileNodes(nodes) == {k \in 1..Len(nodes) : nodes[k].content # 0}

\* the files a pasted text holds: its claude headers, or else its legacy
\* headers, or else the one file that the whole text is
PastedCount(content) ==
  LET claude == Cardinality({k \in 1..Len(content) : content[k].kind = "claude"})
      legacy == Cardinality({k \in 1..Len(content) : content[k].kind = "legacy"})
  IN IF claude > 0 THEN claude ELSE IF legacy > 0 THEN legacy ELSE 1

IngestedCount == IF selectedFiles # <<>> THEN Len(selectedFiles) ELSE PastedCount(pastedCode)

Ingests == ingestion = "idle" /\ ingestion' # "idle"

\* C25: an ingestion of more than 25 files is refused, and a refused
\* ingestion reads nothing and hands no tree to the App; an ingestion of at
\* most 25 files is not refused, the tree is handed over once every read has
\* completed, and it holds every file of the ingestion, each selected file
\* under its own path with its own content.
C25_FileLimitRejectsWhole ==
  /\ [][Ingests => (ingestion' = "refused" <=> IngestedCount > 25)]_vars
  /\ [](ingestion = "refused" => (projectTree = NoProject /\ root = <<>> /\ pendingReads = <<>>))
  /\ [][(Ingests /\ pastedCode # <<>> /\ IngestedCount <= 25)
          => /\ projectTree'.ready
             /\ Len(projectTree'.nodes) = IngestedCount]_vars
  /\ [](ingestion = "reading" => pendingReads # <<>>)
  /\ [](projectTree.ready /\ selectedFiles # <<>>
          => /\ Cardinality(FileNodes(projectTree.nodes)) = Len(selectedFiles)
             /\ \A i \in 1..Len(selectedFiles) :
                  \E k \in FileNodes(projectTree.nodes) :
                    /\ projectTree.nodes[k].path = selectedFiles[i]
                    /\ projectTree.nodes[k].content = i)

C25_Witness ==
  /\ projectTree.ready
  /\ Len(selectedFiles) = 25
  /\ Cardinality(FileNodes(projectTree.nodes)) = 25

\* C26: in a tree handed to the App no two nodes have the same path.
C26_PathsUnique ==
  projectTree.ready
    => \A j, k \in 1..Len(projectTree.nodes) :
         j # k => projectTree.nodes[j].path # projectTree.nodes[k].path

\* The match of the k-th block of the projection and the position its search
\* starts from: behind the last block located before it, or 0.
RECURSIVE SearchedFrom(_)
MatchOfBlock(k) == findBlock(sourceCode, viewBlocks[k].code_block, SearchedFrom(k))

SearchedFrom(k) ==
  IF k = 1 THEN 0
  ELSE IF MatchOfBlock(k - 1).found
       THEN MatchOfBlock(k - 1).index + Len(MatchOfBlock(k - 1).content)
       ELSE SearchedFrom(k - 1)

RangeEnd(k) == MatchOfBlock(k).index + Len(MatchOfBlock(k).content)

\* C31: a match never begins before the position its search started from,
\* the search position of the projection never moves back, and the source
\* ranges of the located blocks do not overlap and follow the block order.
C31_ForwardOnlyMatching ==
  /\ [](blockIndex < Len(viewBlocks) => lastIndex = SearchedFrom(blockIndex + 1))
  /\ [](match.found => match.index + Len(match.content) = lastIndex)
  /\ [][/\ lastIndex' >= lastIndex
        /\ match'.found => match'.index >= lastIndex]_vars
  /\ [](\A j \in 1..Len(viewBlocks) :
          MatchOfBlock(j).found
            => /\ MatchOfBlock(j).index >= SearchedFrom(j)
               /\ \A i \in 1..(j - 1) : MatchOfBlock(i).found => RangeEnd(i) <= MatchOfBlock(j).index)

C31_Witness ==
  /\ blockIndex = 2
  /\ MatchOfBlock(1).found
  /\ match.found
  /\ match.index > 0

\* the source lines from searchFrom on, the text of w lines from line i on
\* (i counted from 0) and the offset of that line in the source
SearchLines == SplitLines(SubstringFrom(sourceCode, lastIndex))

WindowText(i, w) == JoinLines(SubSeq(SearchLines, i + 1, i + w))

Fits(i, w) ==
  /\ w \in 1..5
  /\ i + w <= Len(SearchLines)
  /\ normalizeWhitespace(WindowText(i, w)) = normalizeWhitespace(Candidate)

LineOffset(i) == lastIndex + (IF i > 0 THEN Len(JoinLines(SubSeq(SearchLines, 1, i))) + 1 ELSE 0)

FitStarts == 0..(Len(SearchLines) - 1)

NoExactMatch ==
  /\ Candidate # <<>>
  /\ OccurrencesFrom(Candidate) = {}
  /\ OccurrencesFrom(ReplaceLF(Candidate)) = {}

\* C32: when neither the exact nor the CRLF rule matches, findBlock returns
\* the window of 1 to 5 source lines from searchFrom on whose normalized text
\* is that of the candidate, with the smallest start line and for it the
\* fewest lines, as source text at its source offset; without such a window
\* it finds nothing.
C32_NormalizedWindow ==
  (Located /\ NoExactMatch) =>
    IF \E i \in FitStarts, w \in 1..5 : Fits(i, w)
    THEN \E i \in FitStarts, w \in 1..5 :
           /\ Fits(i, w)
           /\ \A j \in FitStarts, v \in 1..5 : Fits(j, v) => (i < j \/ (i = j /\ w <= v))
           /\ match = [found |-> TRUE, index |-> LineOffset(i), content |-> WindowText(i, w)]
    ELSE match = NoMatch

\* six words that only a run of six source lines holds: nothing is found
C32_Witness ==
  /\ Located
  /\ NoExactMatch
  /\ Candidate = Words(6)
  /\ Len(SearchLines) >= 6
  /\ normalizeWhitespace(WindowText(0, 6)) = normalizeWhitespace(Candidate)
  /\ match = NoMatch

\* ---------------------------------------------------------------- C33
\* a 32-bit integer as four bytes, lowest first (two's complement)
BytesOf(h) == <<h % 256, (h \div 256) % 256, (h \div 65536) % 256, (h \div 16777216) % 256>>

\* the bytes of 31 * h + c, the carry out of the highest byte dropped
TimesThirtyOnePlus(b, c) ==
  LET t1 == 31 * b[1] + c
      t2 == 31 * b[2] + (t1 \div 256)
      t3 == 31 * b[3] + (t2 \div 256)
      t4 == 31 * b[4] + (t3 \div 256)
  IN <<t1 % 256, t2 % 256, t3 % 256, t4 % 256>>

RECURSIVE BytesOfText(_, _)
BytesOfText(b, s) ==
  IF s = <<>> THEN b ELSE BytesOfText(TimesThirtyOnePlus(b, charCodeAt(Head(s))), Tail(s))

\* the signed 32-bit integer of four bytes
SignedOf(b) ==
  (((IF b[4] >= 128 THEN b[4] - 256 ELSE b[4]) * 256 + b[3]) * 256 + b[2]) * 256 + b[1]

\* the value of one base-36 digit
DigitValue(d) == (CHOOSE k \in 1..36 : Digits36[k] = d) - 1

\* the value of a string of base-36 digits, added to or subtracted from v
RECURSIVE ValueOfDigits(_, _, _)
ValueOfDigits(v, ds, sign) ==
  IF ds = <<>> THEN v
  ELSE ValueOfDigits(36 * v + sign * DigitValue(Head(ds)), Tail(ds), sign)

\* a base-36 numeral as toString(36) writes it: no leading zero, a minus
\* sign only before a value other than zero
IsBase36Numeral(key) ==
  LET ds == IF key # <<>> /\ Head(key) = "-" THEN Tail(key) ELSE key
  IN /\ ds # <<>>
     /\ \A i \in 1..Len(ds) : \E k \in 1..36 : Digits36[k] = ds[i]
     /\ (Len(ds) > 1 \/ ds # key) => ds[1] # "0"

ValueOfNumeral(key) ==
  IF Head(key) = "-" THEN ValueOfDigits(0, Tail(key), -1) ELSE ValueOfDigits(0, key, 1)

\* C33: the key createBlockHash returns is the base-36 numeral of h, where
\* h starts at 0 and becomes 31 * h + c wrapped to a signed 32-bit integer
\* for each character code c of the trimmed, whitespace-collapsed block; so
\* the key is a function of that normalized text alone.
C33_HashOfNormalizedText ==
  blockKey # <<>> =>
    /\ IsBase36Numeral(blockKey)
    /\ ValueOfNumeral(blockKey)
         = SignedOf(BytesOfText(BytesOf(0), CollapseWhitespace(Trim(hashedBlock))))

\* a block with whitespace to normalize whose hash wrapped to a negative value
C33_Witness ==
  /\ blockKey # <<>>
  /\ Head(blockKey) = "-"
  /\ hashedBlock # CollapseWhitespace(Trim(hashedBlock))

\* ---------------------------------------------------------------- C34
\* the block of a record read with the block cache the analysis started with:
\* the code a has an explanation in that cache, the other codes have none
FinalBlock(kind) ==
  CASE kind = "ab" -> [code_block |-> <<"a">>, explanation |-> <<"x">>]
    [] kind = "cd" -> [code_block |-> <<"c">>, explanation |-> <<"d">>]
    [] kind = "c_e" -> [code_block |-> <<" ", "c">>, explanation |-> <<"e">>]

\* C34: when the stream has ended, a last line that is a complete record
\* without a newline after it has given the last block of the file, after
\* the blocks of the newline-terminated records, with the explanation the
\* block cache holds for its code if there is one, and the block has been
\* written to the Explanation of the file.
C34_FinalRecordParsed ==
  (phase = "done" /\ tailKind \in {"ab", "cd", "c_e"}) =>
    /\ Len(blocks) = Len(SelectNonEmpty(TerminatedRecords)) + 1
    /\ blocks[Len(blocks)] = FinalBlock(tailKind)
    /\ stored = blocks

\* the stream a b LF a-record ended with its last record split over two
\* fragments: two blocks, the second one from the end-of-stream flush
C34_Witness ==
  /\ phase = "done"
  /\ lineKinds = <<"ab">>
  /\ tailKind = "cd"
  /\ blocks = <<[code_block |-> <<"a">>, explanation |-> <<"x">>],
                [code_block |-> <<"c">>, explanation |-> <<"d">>]>>
  /\ stored = blocks

\* ---------------------------------------------------------------- C35
\* C35: a file of whitespace only whose analysis has ended is done and its
\* Explanation is exactly the one block that says the file is empty.
C35_BlankFileGetsEmptyBlock ==
  \A f \in ProjectFiles :
    (fileContent[f] = Blank /\ processingStatus[f] = "done" /\ streams[f] = <<>>)
      => explanationsCache[f] = [has |-> TRUE, blocks |-> <<EmptyFileBlock>>]

\* ---------------------------------------------------------------- C36
\* the blocks of e with the deep dive of block idx left out of the comparison
SameButDeepDive(e1, e2, idx) ==
  /\ e1.has = e2.has
  /\ Len(e1.blocks) = Len(e2.blocks)
  /\ \A j \in 1..Len(e1.blocks) :
       IF j = idx THEN e1.blocks[j].kind = e2.blocks[j].kind ELSE e1.blocks[j] = e2.blocks[j]

\* C36: a change of the selection leaves every stream and every deep dive in
\* flight; a block of an analysis is written to the Explanation of the file
\* the analysis was started for, and a step of a deep dive writes to the block
\* index of the file it was requested on, whatever file is selected by then,
\* and to no other file.
C36_WritesGoToCapturedPath ==
  /\ [][selectedFile' # selectedFile =>
          /\ dives' = dives
          /\ \A f \in FileSet : SubSeq(streams'[f], 1, Len(streams[f])) = streams[f]
          /\ \A f \in FileSet \ {selectedFile'} : explanationsCache'[f] = explanationsCache[f]]_vars
  /\ [][\A f \in FileSet : \A i \in 1..Len(streams[f]) :
          (/\ Len(streams'[f]) = Len(streams[f])
           /\ Len(streams'[f][i].blocks) > Len(streams[f][i].blocks))
          => /\ Len(explanationsCache'[f].blocks) > 0
             /\ explanationsCache'[f].blocks[Len(explanationsCache'[f].blocks)] = CodeBlock
             /\ OthersKeep(f)]_vars
  /\ [][\A i \in 1..Len(dives) :
          (/\ Len(dives') = Len(dives)
           /\ dives'[i].phase # dives[i].phase)
          => /\ explanationsCache'[dives[i].file].blocks[dives[i].blockIndex].dd
                  = (IF dives'[i].phase = "streaming" THEN "empty" ELSE "text")
             /\ SameButDeepDive(explanationsCache'[dives[i].file],
                                explanationsCache[dives[i].file], dives[i].blockIndex)
             /\ OthersKeep(dives[i].file)]_vars

\* B is selected and its analysis has given a block, while the deep dive
\* requested on a block of A has written its text to that block of A
C36_Witness ==
  /\ selectedFile = "B"
  /\ rendered.selectedFile = "B"
  /\ \E i \in 1..Len(streams["B"]) : Len(streams["B"][i].blocks) > 0
  /\ \E i \in 1..Len(dives) :
       /\ dives[i].file = "A"
       /\ dives[i].phase = "streamed"
       /\ explanationsCache["A"].blocks[dives[i].blockIndex].dd = "text"
  /\ explanationsCache["B"].blocks = <<CodeBlock>>

\* ---------------------------------------------------------------- C37
\* C37: when a block of a JSON-lines analysis arrives, every block of the
\* file that holds deep-dive text holds it afterwards.
C37_DeepDiveTextSurvivesBlocks ==
  [][\A f \in FileSet : \A i \in 1..Len(streams[f]) :
       (/\ variant = "jsonl"
        /\ Len(streams'[f]) = Len(streams[f])
        /\ Len(streams'[f][i].blocks) > Len(streams[f][i].blocks))
       => \A j \in 1..Len(explanationsCache[f].blocks) :
            explanationsCache[f].blocks[j].dd = "text"
              => /\ j <= Len(explanationsCache'[f].blocks)
                 /\ explanationsCache'[f].blocks[j].dd = "text"]_vars

\* ---------------------------------------------------------------- C38
\* handleLogout has run and no project has been loaded since
LoggedOut == fileTree = <<>>

\* C38: after logout the explanation cache, the status map, the block cache
\* and the processing queue are empty, whatever was in flight at logout.
C38_LogoutStaysClean ==
  LoggedOut =>
    /\ \A f \in FileSet : explanationsCache[f] = NoExplanation
    /\ \A f \in FileSet : processingStatus[f] = "idle"
    /\ globalBlockCache = {}
    /\ processingQueue = <<>>

\* ---------------------------------------------------------------- C39
\* C39: of two mapped lines the lower one belongs to a block whose index is
\* at most that of the block of the higher one.
C39_LineMapMonotone ==
  \A l1 \in DOMAIN metadata : \A l2 \in DOMAIN metadata :
    l1 < l2 => metadata[l1] <= metadata[l2]

\* source "a\na" with the blocks "a\n" and "a": the first is located on the
\* lines 1-2, the second on line 2, which passes to the second block
C39_Witness ==
  /\ sourceCode = <<"a", LF, "a">>
  /\ blockIndex = 2
  /\ viewBlocks[1].code_block = <<"a", LF>>
  /\ viewBlocks[2].code_block = <<"a">>
  /\ DOMAIN metadata = {1, 2}
  /\ metadata[1] = 0
  /\ metadata[2] = 1

====
